---------------------------- MODULE Spec2Model ----------------------------
(***************************************************************************)
(* The ticket classification and sentiment scoring core of the support     *)
(* platform: chatbot/ticket_classifier.py (TicketClassifier) and           *)
(* chatbot/sentiment_analyzer.py (SentimentAnalyzer), with the second      *)
(* sentiment implementation ml_models/sentiment_model.py                   *)
(* (SentimentAnalysisModel) and the escalation rule of                     *)
(* chatbot/ai_engine.py (AIchatbotEngine.should_escalate).                 *)
(*                                                                         *)
(* Texts are TLA+ strings; Python floats are modelled as exact rationals   *)
(* [n, d]; a Python call that raises is a record with raised = TRUE.       *)
(* The ML backends (zero-shot pipeline, TF-IDF + RandomForest, sentiment   *)
(* pipeline, VADER, TextBlob) are not part of the repository: what they    *)
(* return, and whether they throw, is drawn from small sets.               *)
(***************************************************************************)
EXTENDS Integers, Sequences, FiniteSets, TLC

VARIABLES
  bert_classifier,    \* TicketClassifier.bert_classifier: "none" | "loaded"
  traditional_model,  \* TicketClassifier.traditional_model: [kind, run, classes]
  vectorizer,         \* TicketClassifier.vectorizer: [kind, run]
  model_file,         \* ticket_classifier.joblib under models_base: [kind, run, classes]
  vec_file,           \* tfidf_vectorizer.joblib under models_base: [kind, run]
  runs,               \* number of training runs that got past the size check
  sentiment_pipeline, \* SentimentAnalyzer.sentiment_pipeline: "none" | "loaded"
  vader,              \* SentimentAnalyzer.vader: "none" | "loaded"
  textblob_enabled,   \* SentimentAnalyzer.textblob_enabled
  transformer_model,  \* SentimentAnalysisModel.transformer_model: "none" | "loaded"
  vader_analyzer,     \* SentimentAnalysisModel.vader_analyzer: "none" | "loaded"
  now,                \* timezone.now(), in whole days
  ticket,             \* a Ticket row: [status, resolved_at], resolved_at None or a day
  ticket_history,     \* its TicketHistory rows with action status_changed, oldest first
  trainer,            \* a train_traditional_model call in progress: [pc, run, classes]
  call,               \* a _classify_with_traditional call in progress: [pc, vec, model]
  last                \* the last operation and what it returned

classifierVars == <<bert_classifier, traditional_model, vectorizer, model_file, vec_file, runs>>
sentimentVars == <<sentiment_pipeline, vader, textblob_enabled>>
modelVars == <<transformer_model, vader_analyzer>>
threadVars == <<trainer, call>>
ticketVars == <<now, ticket, ticket_history>>
vars == <<classifierVars, sentimentVars, modelVars, ticketVars, threadVars, last>>

-----------------------------------------------------------------------------
(* Rationals: the values of Python floats, exactly. *)

RECURSIVE GCD(_, _)
GCD(a, b) == IF b = 0 THEN a ELSE GCD(b, a % b)

Abs(i) == IF i < 0 THEN -i ELSE i

R(n, d) ==
  LET g == GCD(Abs(n), Abs(d))
      s == IF d < 0 THEN -1 ELSE 1
  IN [n |-> (s * n) \div g, d |-> (s * d) \div g]

Zero == R(0, 1)
One == R(1, 1)
RAdd(a, b) == R(a.n * b.d + b.n * a.d, a.d * b.d)
RMul(a, b) == R(a.n * b.n, a.d * b.d)
RNeg(a) == [n |-> -a.n, d |-> a.d]
RAbs(a) == [n |-> Abs(a.n), d |-> a.d]
RLt(a, b) == a.n * b.d < b.n * a.d
RLe(a, b) == a.n * b.d <= b.n * a.d
RMin(a, b) == IF RLe(a, b) THEN a ELSE b
InUnit(a) == RLe(Zero, a) /\ RLe(a, One)

-----------------------------------------------------------------------------
(* Strings: str.lower(), the `in` substring test. *)

UpperToLower ==
  [c \in {"A", "B", "C", "D", "E", "F", "G", "H", "I", "J", "K", "L", "M", "N", "O", "P", "Q",
          "R", "S", "T", "U", "V", "W", "X", "Y", "Z"} |->
     CASE c = "A" -> "a" [] c = "B" -> "b" [] c = "C" -> "c" [] c = "D" -> "d" [] c = "E" -> "e"
       [] c = "F" -> "f" [] c = "G" -> "g" [] c = "H" -> "h" [] c = "I" -> "i" [] c = "J" -> "j"
       [] c = "K" -> "k" [] c = "L" -> "l" [] c = "M" -> "m" [] c = "N" -> "n" [] c = "O" -> "o"
       [] c = "P" -> "p" [] c = "Q" -> "q" [] c = "R" -> "r" [] c = "S" -> "s" [] c = "T" -> "t"
       [] c = "U" -> "u" [] c = "V" -> "v" [] c = "W" -> "w" [] c = "X" -> "x" [] c = "Y" -> "y"
       [] c = "Z" -> "z"]

LowerToUpper ==
  [c \in {UpperToLower[u] : u \in DOMAIN UpperToLower} |->
     CHOOSE u \in DOMAIN UpperToLower : UpperToLower[u] = c]

RECURSIVE upper(_)
upper(s) ==
  IF s = "" THEN ""
  ELSE (IF SubSeq(s, 1, 1) \in DOMAIN LowerToUpper THEN LowerToUpper[SubSeq(s, 1, 1)]
        ELSE SubSeq(s, 1, 1))
       \o upper(SubSeq(s, 2, Len(s)))

\* not text.strip(): nothing but whitespace
IsBlank(text) == \A i \in 1..Len(text) : SubSeq(text, i, i) \in {" ", "\t", "\n", "\r"}

RECURSIVE lower(_)
lower(s) ==
  IF s = "" THEN ""
  ELSE LET c == SubSeq(s, 1, 1)
       IN (IF c \in DOMAIN UpperToLower THEN UpperToLower[c] ELSE c)
            \o lower(SubSeq(s, 2, Len(s)))

\* kw in text
In(kw, text) ==
  \E i \in 1..(Len(text) - Len(kw) + 1) : SubSeq(text, i, i + Len(kw) - 1) = kw

-----------------------------------------------------------------------------
(* Sequences of [category, score] items: sorted(..., reverse=True), max(...). *)

\* the first index holding the largest score: max(d, key=d.get), and the head
\* of a stable descending sort
FirstMaxIndex(s) ==
  CHOOSE i \in 1..Len(s) :
    /\ \A j \in 1..Len(s) : RLe(s[j].score, s[i].score)
    /\ \A j \in 1..(i - 1) : RLt(s[j].score, s[i].score)

RemoveAt(s, i) == SubSeq(s, 1, i - 1) \o SubSeq(s, i + 1, Len(s))

\* sorted(items, key=score, reverse=True): stable, equal scores keep their order
RECURSIVE SortedDesc(_)
SortedDesc(s) ==
  IF s = <<>> THEN <<>>
  ELSE LET i == FirstMaxIndex(s) IN <<s[i]>> \o SortedDesc(RemoveAt(s, i))

Take(s, k) == SubSeq(s, 1, IF Len(s) < k THEN Len(s) ELSE k)

RECURSIVE SumScores(_)
SumScores(s) == IF s = <<>> THEN 0 ELSE s[1] + SumScores(Tail(s))

RECURSIVE Filter(_, _)
Filter(s, keep) ==
  IF s = <<>> THEN <<>>
  ELSE (IF s[1] \in keep THEN <<s[1]>> ELSE <<>>) \o Filter(Tail(s), keep)

-----------------------------------------------------------------------------
(* Lexicon tables. *)

\* TicketClassifier.categories, the default list (settings.TICKET_CATEGORIES unset)
categories ==
  <<"Technical Issue", "Billing", "Account Management", "Product Inquiry", "Feature Request",
    "Bug Report", "General Support">>

Range(s) == {s[i] : i \in DOMAIN s}

priority_keywords ==
  <<
    [key |-> "urgent", kws |-> <<"urgent", "emergency", "critical", "immediately", "asap", "down",
                 "not working", "broken", "crashed", "error", "can't access", "blocked",
                 "security breach", "data loss", "system down", "outage", "production issue">>],
    [key |-> "high", kws |-> <<"important", "soon", "high priority", "affecting multiple",
                 "production", "customer facing", "revenue impact", "business critical",
                 "major issue", "severe">>],
    [key |-> "medium", kws |-> <<"need help", "issue", "problem", "question", "not sure",
                 "confused", "clarification", "assistance", "support needed", "help required">>],
    [key |-> "low", kws |-> <<"when possible", "future", "enhancement", "suggestion", "feedback",
                 "nice to have", "eventually", "minor", "cosmetic", "improvement">>]
  >>

keyword_map ==
  <<
    [key |-> "Technical Issue", kws |-> <<"error", "bug", "crash", "not working", "broken",
                 "issue", "problem", "failed", "failure", "malfunction", "glitch", "freeze",
                 "hang", "slow", "timeout", "connection">>],
    [key |-> "Billing", kws |-> <<"payment", "invoice", "bill", "charge", "refund", "subscription",
                 "pricing", "cost", "fee", "credit card", "transaction", "receipt", "overcharge",
                 "discount", "upgrade">>],
    [key |-> "Account Management", kws |-> <<"account", "login", "password", "access", "profile",
                 "settings", "username", "authentication", "verification", "reset", "permissions",
                 "two-factor", "sign in">>],
    [key |-> "Product Inquiry", kws |-> <<"how to", "feature", "what is", "explain",
                 "information about", "does it", "can i", "is it possible", "functionality",
                 "capability", "specification", "documentation">>],
    [key |-> "Feature Request", kws |-> <<"request", "add", "improve", "enhancement", "suggestion",
                 "would like", "wish", "hoping", "could you add", "new feature", "implement",
                 "integrate">>],
    [key |-> "Bug Report", kws |-> <<"bug", "error message", "wrong", "incorrect", "unexpected",
                 "should", "supposed to", "reproducible", "steps to reproduce", "console error",
                 "exception">>],
    [key |-> "General Support", kws |-> <<"help", "support", "question", "ask", "need",
                 "assistance", "guidance", "advice", "recommend", "best practice">>]
  >>

tag_map ==
  <<
    [key |-> "api", kws |-> <<"api", "endpoint", "integration", "webhook", "rest", "graphql">>],
    [key |-> "database", kws |-> <<"database", "sql", "query", "table", "migration">>],
    [key |-> "authentication", kws |-> <<"login", "password", "auth", "token", "oauth">>],
    [key |-> "payment", kws |-> <<"payment", "billing", "charge", "invoice", "stripe", "paypal">>],
    [key |-> "ui", kws |-> <<"interface", "ui", "display", "screen", "button", "layout">>],
    [key |-> "performance", kws |-> <<"slow", "performance", "speed", "latency", "timeout">>],
    [key |-> "security", kws |-> <<"security", "breach", "hack", "vulnerability", "ssl",
                 "encryption">>],
    [key |-> "mobile", kws |-> <<"mobile", "ios", "android", "app", "smartphone">>],
    [key |-> "email", kws |-> <<"email", "smtp", "bounce", "delivery", "notification">>],
    [key |-> "reporting", kws |-> <<"report", "analytics", "dashboard", "chart", "export">>]
  >>

-----------------------------------------------------------------------------
(* The tickets classified. *)

Tickets ==
  {[title |-> "System is down, urgent!!",
    description |-> "Production is broken, can't access anything"],
   [title |-> "Refund", description |-> "I need help with my invoice"],
   [title |-> "", description |-> "Hello"],
   [title |-> "",
    description |-> "A minor issue with my login invoice and a question or suggestion"],
   [title |-> "", description |-> "Invoice"]}

\* text = f"{title}. {description}"
TicketText(title, description) == title \o ". " \o description

TicketTexts == {TicketText(tk.title, tk.description) : tk \in Tickets}

-----------------------------------------------------------------------------
(* Rule-based category classifier. *)

\* the inner loop of _classify_with_rules: 2 for a keyword that stands between
\* spaces, 1 for a keyword that only occurs as a substring
RECURSIVE KeywordScore(_, _)
KeywordScore(kws, text_lower) ==
  IF kws = <<>> THEN 0
  ELSE (IF In(kws[1], text_lower)
          THEN (IF In(" " \o kws[1] \o " ", " " \o text_lower \o " ") THEN 2 ELSE 1)
          ELSE 0)
       + KeywordScore(Tail(kws), text_lower)

\* DefaultRules with an empty top_predictions
DefaultRulesEmptyTop ==
  [category |-> "General Support", confidence |-> R(1, 2), method |-> "rules",
   top_predictions |-> <<>>]

DefaultRules ==
  [category |-> "General Support", confidence |-> R(1, 2), method |-> "rules",
   top_predictions |-> <<[category |-> "General Support", confidence |-> R(1, 2)]>>]

RulesScores(text) ==
  LET text_lower == lower(text)
  IN [i \in DOMAIN keyword_map |->
        [category |-> keyword_map[i].key,
         score |-> R(KeywordScore(keyword_map[i].kws, text_lower), 1)]]

Max1(total) == IF total < 1 THEN 1 ELSE total

Total(scores) == SumScores([i \in DOMAIN scores |-> scores[i].score.n])

\* RulesTop without the test sc > 0
RulesTopWithZeros(sorted_scores, total) ==
  [i \in DOMAIN sorted_scores |->
     [category |-> sorted_scores[i].category,
      confidence |-> R(sorted_scores[i].score.n, Max1(total))]]

\* sorted(scores.items(), ...)[:3], the entries with sc > 0, over total
RulesTop(sorted_scores, total) ==
  LET nonzero == Filter(sorted_scores, {x \in Range(sorted_scores) : x.score.n > 0})
  IN [i \in DOMAIN nonzero |->
        [category |-> nonzero[i].category, confidence |-> R(nonzero[i].score.n, Max1(total))]]

\* the decision of _classify_with_rules, from the scores per category
RulesFrom(scores, best, total, top_predictions) ==
  IF best.score.n = 0 THEN DefaultRules
  ELSE [category |-> best.category,
        confidence |-> R(best.score.n, Max1(total)),
        method |-> "rules",
        top_predictions |->
          IF top_predictions = <<>> THEN DefaultRules.top_predictions ELSE top_predictions]

RulesDecision(scores) ==
  RulesFrom(scores, scores[FirstMaxIndex(scores)], Total(scores),
            RulesTop(Take(SortedDesc(scores), 3), Total(scores)))

RulesResult(text) == RulesDecision(RulesScores(text))

\* _classify_with_rules is a function of the text alone: its results on the
\* tickets classified are computed once
RulesOfTickets == [text \in TicketTexts |-> RulesResult(text)]

classify_with_rules(text) ==
  IF text \in TicketTexts THEN RulesOfTickets[text] ELSE RulesResult(text)

-----------------------------------------------------------------------------
(* Python values of the metadata dict: an int, a str, or None. *)

IntV(i) == [t |-> "int", i |-> i]
StrV(x) == [t |-> "str", s |-> x]
NoneV == [t |-> "none"]

\* metadata.get(key, default)
MetaGet(md, key, default) == IF key \in DOMAIN md THEN md[key] ELSE default

-----------------------------------------------------------------------------
(* Priority scorer. *)

\* the keyword loop of _classify_priority for one bucket: 2 for a keyword that
\* also occurs in the title, 1 otherwise
RECURSIVE PriorityKeywordScore(_, _, _)
PriorityKeywordScore(kws, text, title_lower) ==
  IF kws = <<>> THEN 0
  ELSE (IF In(kws[1], text) THEN (IF In(kws[1], title_lower) THEN 2 ELSE 1) ELSE 0)
       + PriorityKeywordScore(Tail(kws), text, title_lower)

VipBonus == 3
EscalationBonus == 2
SlaUrgentHours == 2
SlaUrgentBonus == 3
SlaHighHours == 8
SlaHighBonus == 2

\* the metadata adjustments: what each adds to "urgent" and to "high"; the
\* comparisons previous_escalations > 0 and sla_hours <= 2 raise TypeError on
\* a str or None operand
MetaRaises(md) ==
  \/ MetaGet(md, "previous_escalations", IntV(0)).t # "int"
  \/ MetaGet(md, "sla_hours", NoneV).t = "str"

\* MetaHigh with the vip bonus as the first branch of the SLA elif chain
MetaHighVipOrSla(md) ==
  (IF MetaGet(md, "previous_escalations", IntV(0)).i > 0 THEN EscalationBonus ELSE 0)
  + (LET sla_hours == MetaGet(md, "sla_hours", NoneV)
     IN IF MetaGet(md, "customer_tier", NoneV) = StrV("vip") THEN VipBonus
        ELSE IF sla_hours # NoneV /\ sla_hours.i > SlaUrgentHours /\ sla_hours.i <= SlaHighHours
          THEN SlaHighBonus ELSE 0)

MetaHigh(md) ==
  (IF MetaGet(md, "customer_tier", NoneV) = StrV("vip") THEN VipBonus ELSE 0)
  + (IF MetaGet(md, "previous_escalations", IntV(0)).i > 0 THEN EscalationBonus ELSE 0)
  + (LET sla_hours == MetaGet(md, "sla_hours", NoneV)
     IN IF sla_hours # NoneV /\ sla_hours.i > SlaUrgentHours /\ sla_hours.i <= SlaHighHours
          THEN SlaHighBonus ELSE 0)

\* MetaUrgent with sla_hours < 2
MetaUrgentBelowTwo(md) ==
  LET sla_hours == MetaGet(md, "sla_hours", NoneV)
  IN IF sla_hours # NoneV /\ sla_hours.i < SlaUrgentHours THEN SlaUrgentBonus ELSE 0

MetaUrgent(md) ==
  LET sla_hours == MetaGet(md, "sla_hours", NoneV)
  IN IF sla_hours # NoneV /\ sla_hours.i <= SlaUrgentHours THEN SlaUrgentBonus ELSE 0

\* the keyword loop for the four buckets
KeywordScores(title, description) ==
  LET text == lower(title \o " " \o description)
      title_lower == lower(title)
  IN [i \in DOMAIN priority_keywords |->
        PriorityKeywordScore(priority_keywords[i].kws, text, title_lower)]

KeywordScoresOfTickets == [tk \in Tickets |-> KeywordScores(tk.title, tk.description)]

TicketKeywordScores(tk) ==
  IF tk \in Tickets THEN KeywordScoresOfTickets[tk] ELSE KeywordScores(tk.title, tk.description)

BucketScores(kw, md) ==
  <<[category |-> "urgent", score |-> R(kw[1] + MetaUrgent(md), 1)],
    [category |-> "high", score |-> R(kw[2] + MetaHigh(md), 1)],
    [category |-> "medium", score |-> R(kw[3], 1)],
    [category |-> "low", score |-> R(kw[4], 1)]>>

PriorityScores(title, description, md) ==
  BucketScores(TicketKeywordScores([title |-> title, description |-> description]), md)

\* PriorityFrom without the factor 1.5
PriorityFromUnscaled(scores, best, total) ==
  IF best.score.n = 0
    THEN [raised |-> FALSE, priority |-> "medium", confidence |-> R(6, 10), scores |-> scores]
    ELSE [raised |-> FALSE, priority |-> best.category,
          confidence |-> RMin(R(best.score.n, Max1(total)), One),
          scores |-> scores]

\* PriorityFrom without min(..., 1.0)
PriorityFromUncapped(scores, best, total) ==
  IF best.score.n = 0
    THEN [raised |-> FALSE, priority |-> "medium", confidence |-> R(6, 10), scores |-> scores]
    ELSE [raised |-> FALSE, priority |-> best.category,
          confidence |-> RMul(R(best.score.n, Max1(total)), R(15, 10)),
          scores |-> scores]

\* the final decision of _classify_priority, from the four bucket scores
PriorityFrom(scores, best, total) ==
  IF best.score.n = 0
    THEN [raised |-> FALSE, priority |-> "medium", confidence |-> R(6, 10), scores |-> scores]
    ELSE [raised |-> FALSE, priority |-> best.category,
          confidence |-> RMin(RMul(R(best.score.n, Max1(total)), R(15, 10)), One),
          scores |-> scores]

\* PriorityDecision taking the last of the largest scores
PriorityDecisionLastMax(scores) ==
  PriorityFrom(scores,
               scores[CHOOSE i \in 1..Len(scores) :
                        /\ \A j \in 1..Len(scores) : RLe(scores[j].score, scores[i].score)
                        /\ \A j \in (i + 1)..Len(scores) : RLt(scores[j].score, scores[i].score)],
               Total(scores))

PriorityDecision(scores) == PriorityFrom(scores, scores[FirstMaxIndex(scores)], Total(scores))

classify_priority(title, description, md) ==
  IF MetaRaises(md) THEN [raised |-> TRUE]
  ELSE PriorityDecision(PriorityScores(title, description, md))

-----------------------------------------------------------------------------
(* Tags, resolution time, team. *)

RECURSIVE ExtractTags(_, _)
ExtractTags(tm, text_lower) ==
  IF tm = <<>> THEN <<>>
  ELSE (IF \E i \in DOMAIN tm[1].kws : In(tm[1].kws[i], text_lower)
          THEN <<tm[1].key>> ELSE <<>>)
       \o ExtractTags(Tail(tm), text_lower)

TagsResult(text) == Take(ExtractTags(tag_map, lower(text)), 5)

TagsOfTickets == [text \in TicketTexts |-> TagsResult(text)]

extract_tags(text) == IF text \in TicketTexts THEN TagsOfTickets[text] ELSE TagsResult(text)

\* the en dash of the matrix's labels is written "--"; the fallback label of
\* classify_ticket's except branch has a plain hyphen
estimate_resolution_time(category, priority) ==
  CASE priority = "urgent" /\ category = "Technical Issue" -> "2--4 hours"
    [] priority = "urgent" /\ category = "Billing" -> "1--2 hours"
    [] priority = "urgent" /\ category = "Account Management" -> "1--2 hours"
    [] priority = "high" /\ category = "Technical Issue" -> "4--8 hours"
    [] priority = "high" /\ category = "Billing" -> "2--4 hours"
    [] priority = "high" /\ category = "Account Management" -> "2--4 hours"
    [] priority = "medium" /\ category = "Technical Issue" -> "1--2 business days"
    [] priority = "medium" /\ category = "Billing" -> "4--8 hours"
    [] priority = "medium" /\ category = "Account Management" -> "4--8 hours"
    [] priority = "low" /\ category = "Technical Issue" -> "3--5 business days"
    [] priority = "low" /\ category = "Billing" -> "1--2 business days"
    [] priority = "low" /\ category = "Account Management" -> "1--2 business days"
    [] OTHER -> "2--3 business days"

suggest_team(category) ==
  CASE category \in {"Technical Issue", "Bug Report"} -> "technical"
    [] category = "Billing" -> "billing"
    [] category \in {"Account Management", "Product Inquiry"} -> "support"
    [] category = "Feature Request" -> "product"
    [] OTHER -> "general"

-----------------------------------------------------------------------------
(* Category classification. *)

\* the objects _setup_traditional_classifier leaves behind
NoModel == [kind |-> "none", run |-> 0, classes |-> <<>>]
UntrainedModel == [kind |-> "untrained", run |-> 0, classes |-> <<>>]
TrainedModel(r, cls) == [kind |-> "trained", run |-> r, classes |-> cls]
NoVectorizer == [kind |-> "none", run |-> 0]
UnfittedVectorizer == [kind |-> "unfitted", run |-> 0]
FittedVectorizer(r) == [kind |-> "fitted", run |-> r]

\* The truth test `self.traditional_model` of lines 244, 251 and 331.  None is
\* false and a fitted forest is true (its length is its number of trees).  A
\* RandomForestClassifier defines __len__ over estimators_, which only fit()
\* creates: on a forest that was never fitted the test itself raises
\* AttributeError in scikit-learn; `truth` ("true" | "raises") is that outcome.
ModelTruth(model, truth) ==
  CASE model.kind = "none" -> "false"
    [] model.kind = "trained" -> "true"
    [] OTHER -> truth

\* `self.vectorizer`: a TfidfVectorizer has no __len__, any object is true
VectorizerTruth(vec) == IF vec.kind = "none" THEN "false" ELSE "true"

\* `self.traditional_model and self.vectorizer`
PairTruth(model, vec, truth) ==
  LET m == ModelTruth(model, truth)
  IN IF m = "true" THEN VectorizerTruth(vec) ELSE m

Zip(labels, scores) ==
  [i \in 1..(IF Len(labels) < Len(scores) THEN Len(labels) ELSE Len(scores)) |->
     [category |-> labels[i], confidence |-> scores[i]]]

\* b: what the zero-shot pipeline did, [raised |-> TRUE] or its ranking
classify_with_bert(text, b) ==
  IF b.raised THEN classify_with_rules(text)
  ELSE [category |-> b.labels[1], confidence |-> b.scores[1], method |-> "bert",
        top_predictions |-> Zip(Take(b.labels, 3), Take(b.scores, 3))]

\* np.argmax(probs): the first index of the largest probability
ArgMax(probs) ==
  CHOOSE i \in 1..Len(probs) :
    /\ \A j \in 1..Len(probs) : RLe(probs[j], probs[i])
    /\ \A j \in 1..(i - 1) : RLt(probs[j], probs[i])

\* np.argsort(probs): the indices in ascending order of probability.  The
\* default kind is quicksort, which is not stable: equal probabilities come
\* in the order the build's sort leaves them, index order with the insertion
\* sort of short arrays, any order with the vectorized sorts
ArgSorts(probs) ==
  {o \in [DOMAIN probs -> DOMAIN probs] :
     /\ \A i, j \in DOMAIN probs : i # j => o[i] # o[j]
     /\ \A i, j \in DOMAIN probs : i < j => RLe(probs[o[i]], probs[o[j]])}

Reverse(s) == [i \in 1..Len(s) |-> s[Len(s) + 1 - i]]

LastK(s, k) == SubSeq(s, IF Len(s) > k THEN Len(s) - k + 1 ELSE 1, Len(s))

\* vectorizer.transform and model.predict_proba raise NotFittedError before
\* fit; t is what they did otherwise: [raised |-> TRUE] or the probabilities
\* and the order np.argsort gave them
TraditionalRaises(model, vec, t) ==
  vec.kind # "fitted" \/ model.kind # "trained" \/ t.raised

TraditionalDecision(classes, probs, idx, top_idx) ==
  [category |-> classes[idx], confidence |-> probs[idx], method |-> "traditional",
   top_predictions |->
     [i \in DOMAIN top_idx |->
        [category |-> classes[top_idx[i]], confidence |-> probs[top_idx[i]]]]]

classify_with_traditional(text, model, vec, t) ==
  IF TraditionalRaises(model, vec, t) THEN classify_with_rules(text)
  ELSE TraditionalDecision(model.classes, t.probs, ArgMax(t.probs),
                           Reverse(LastK(t.order, 3)))

\* BertWeight of 0.8
BertWeightHeavy == R(8, 10)

BertWeight == R(6, 10)
TraditionalWeight == R(3, 10)
RulesWeight == R(1, 10)

\* Accumulate with scores[cat] = confidence * weight
RECURSIVE AccumulateOverwrite(_, _)
AccumulateOverwrite(components, scores) ==
  IF components = <<>> THEN scores
  ELSE
    LET comp == components[1]
        add == RMul(comp.confidence, comp.weight)
        at == {i \in DOMAIN scores : scores[i].category = comp.category}
    IN AccumulateOverwrite(
         Tail(components),
         IF at = {}
           THEN Append(scores, [category |-> comp.category, score |-> add])
           ELSE [i \in DOMAIN scores |->
                   IF i \in at THEN [scores[i] EXCEPT !.score = add] ELSE scores[i]])

\* scores[cat] = scores.get(cat, 0.0) + confidence * weight, keys in the
\* order of their first component
RECURSIVE Accumulate(_, _)
Accumulate(components, scores) ==
  IF components = <<>> THEN scores
  ELSE
    LET comp == components[1]
        add == RMul(comp.confidence, comp.weight)
        at == {i \in DOMAIN scores : scores[i].category = comp.category}
    IN Accumulate(
         Tail(components),
         IF at = {}
           THEN Append(scores, [category |-> comp.category, score |-> RAdd(Zero, add)])
           ELSE [i \in DOMAIN scores |->
                   IF i \in at THEN [scores[i] EXCEPT !.score = RAdd(@, add)] ELSE scores[i]])

Component(pred, weight) ==
  [category |-> pred.category, confidence |-> pred.confidence, weight |-> weight]

\* the components list of _classify_with_ensemble
EnsembleComponents(text, bert, model, vec, b, t, truth) ==
  (IF bert = "loaded" THEN <<Component(classify_with_bert(text, b), BertWeight)>> ELSE <<>>)
  \o (IF PairTruth(model, vec, truth) = "true"
        THEN <<Component(classify_with_traditional(text, model, vec, t), TraditionalWeight)>>
        ELSE <<>>)
  \o <<Component(classify_with_rules(text), RulesWeight)>>

\* final_cat, final_score = sorted_items[0]; top_predictions = sorted_items[:3]
EnsembleDecision(sorted_items) ==
  [category |-> sorted_items[1].category, confidence |-> sorted_items[1].score,
   method |-> "ensemble",
   top_predictions |->
     [i \in 1..(IF Len(sorted_items) < 3 THEN Len(sorted_items) ELSE 3) |->
        [category |-> sorted_items[i].category, confidence |-> sorted_items[i].score]]]

classify_with_ensemble(text, bert, model, vec, b, t, truth) ==
  IF PairTruth(model, vec, truth) = "raises" THEN classify_with_rules(text)
  ELSE EnsembleDecision(
         SortedDesc(Accumulate(EnsembleComponents(text, bert, model, vec, b, t, truth), <<>>)))

Returned(v) == [raised |-> FALSE, value |-> v]
Raised == [raised |-> TRUE]

\* _classify_category has no try of its own: a truth test that raises leaves it
\* which branch of _classify_category runs
\* CategoryBranch running the ensemble whenever the zero-shot classifier exists
CategoryBranchEnsembleFirst(bert, pair) ==
  CASE pair = "raises" -> "raises"
    [] bert = "loaded" -> "ensemble"
    [] pair = "true" -> "traditional"
    [] OTHER -> "rules"

CategoryBranch(bert, pair) ==
  CASE pair = "raises" -> "raises"
    [] bert = "loaded" /\ pair = "true" -> "ensemble"
    [] bert = "loaded" -> "bert"
    [] pair = "true" -> "traditional"
    [] OTHER -> "rules"

classify_category(text, bert, model, vec, b, t, truth) ==
  CASE CategoryBranch(bert, PairTruth(model, vec, truth)) = "raises" -> Raised
    [] CategoryBranch(bert, PairTruth(model, vec, truth)) = "ensemble" ->
         Returned(classify_with_ensemble(text, bert, model, vec, b, t, truth))
    [] CategoryBranch(bert, PairTruth(model, vec, truth)) = "bert" ->
         Returned(classify_with_bert(text, b))
    [] CategoryBranch(bert, PairTruth(model, vec, truth)) = "traditional" ->
         Returned(classify_with_traditional(text, model, vec, t))
    [] OTHER -> Returned(classify_with_rules(text))

-----------------------------------------------------------------------------
(* classify_ticket *)

FallbackTicket ==
  [category |-> "General Support", category_confidence |-> R(1, 2), priority |-> "medium",
   priority_confidence |-> R(1, 2), tags |-> <<>>,
   estimated_resolution_time |-> "2-3 business days", suggested_team |-> "general",
   error |-> TRUE]

\* md: [t |-> "none"] for metadata=None, or [t |-> "dict", d |-> the dict]
MetaOrEmpty(md) == IF md.t = "dict" THEN md.d ELSE [k \in {} |-> NoneV]

\* TicketResult with the try around the category classification only: a
\* priority scorer that raised leaves the priority at its default
TicketResultCategoryTryOnly(text, cat_result, pri_result) ==
  IF cat_result.raised THEN FallbackTicket
  ELSE [category |-> cat_result.value.category,
        category_confidence |-> cat_result.value.confidence,
        priority |-> IF pri_result.raised THEN "medium" ELSE pri_result.priority,
        priority_confidence |-> IF pri_result.raised THEN R(1, 2) ELSE pri_result.confidence,
        tags |-> extract_tags(text),
        estimated_resolution_time |-> "2-3 business days",
        suggested_team |-> suggest_team(cat_result.value.category),
        top_categories |-> cat_result.value.top_predictions,
        classification_method |-> cat_result.value.method,
        error |-> FALSE]

\* the body of classify_ticket's try, given what the two classifiers did
TicketResult(text, cat_result, pri_result) ==
  IF cat_result.raised \/ pri_result.raised THEN FallbackTicket
  ELSE [category |-> cat_result.value.category,
        category_confidence |-> cat_result.value.confidence,
        priority |-> pri_result.priority,
        priority_confidence |-> pri_result.confidence,
        tags |-> extract_tags(text),
        estimated_resolution_time |->
          estimate_resolution_time(cat_result.value.category, pri_result.priority),
        suggested_team |-> suggest_team(cat_result.value.category),
        top_categories |-> cat_result.value.top_predictions,
        classification_method |-> cat_result.value.method,
        error |-> FALSE]

classify_ticket(title, description, md, bert, model, vec, b, t, truth) ==
  TicketResult(TicketText(title, description),
               classify_category(TicketText(title, description), bert, model, vec, b, t, truth),
               classify_priority(title, description, MetaOrEmpty(md)))

-----------------------------------------------------------------------------
(* train_traditional_model *)

MinTrainingExamples == 20

\* training_data: [t |-> "none"] for None, or [t |-> "list", n |-> its length,
\* classes |-> the sorted distinct labels in it]
\* NotEnoughData with the size check off by one (<= 18 instead of < 20)
NotEnoughDataOffByOne(data) ==
  IF data.t = "none" THEN TRUE ELSE (data.n = 0 \/ data.n < MinTrainingExamples - 1)

NotEnoughData(data) ==
  IF data.t = "none" THEN TRUE ELSE (data.n = 0 \/ data.n < MinTrainingExamples)

\* outcome: the statement of the try block that raised, or "ok"
TrainOutcomes ==
  {"ok", "fit_vectorizer_raises", "fit_model_raises", "dump_model_raises",
   "dump_vectorizer_raises"}

\* how far a call gets: self.vectorizer.fit_transform (None has no such
\* attribute), self.traditional_model.fit, the two joblib.dump calls
FitsVectorizer(vec, data, outcome) ==
  ~NotEnoughData(data) /\ vec.kind # "none" /\ outcome # "fit_vectorizer_raises"

FitsModel(model, vec, data, outcome) ==
  FitsVectorizer(vec, data, outcome) /\ model.kind # "none" /\ outcome # "fit_model_raises"

DumpsModel(model, vec, data, outcome) ==
  FitsModel(model, vec, data, outcome) /\ outcome # "dump_model_raises"

DumpsVectorizer(model, vec, data, outcome) ==
  DumpsModel(model, vec, data, outcome) /\ outcome # "dump_vectorizer_raises"

-----------------------------------------------------------------------------
(* Inputs. *)

ConfDen == 2
MaxRuns == 1

Levels == {R(k, ConfDen) : k \in 0..ConfDen}

Metadatas ==
  {[t |-> "none"],
   [t |-> "dict", d |-> [customer_tier |-> StrV("vip")]],
   [t |-> "dict", d |-> [sla_hours |-> IntV(1)]],
   [t |-> "dict", d |-> [sla_hours |-> StrV("soon")]],
   [t |-> "dict", d |-> [previous_escalations |-> NoneV, sla_hours |-> IntV(8)]],
   [t |-> "dict", d |-> [sla_hours |-> IntV(SlaUrgentHours)]],
   [t |-> "dict", d |-> [sla_hours |-> IntV(SlaUrgentHours + 1)]],
   [t |-> "dict", d |-> [sla_hours |-> IntV(SlaHighHours + 1)]],
   [t |-> "dict", d |-> [customer_tier |-> StrV("vip"), previous_escalations |-> IntV(1),
                         sla_hours |-> IntV(SlaHighHours)]],
   [t |-> "dict", d |-> [customer_tier |-> StrV("vip"), sla_hours |-> IntV(1)]]}

\* the zero-shot pipeline ranks every candidate label, best first
Ranking(top) == <<top>> \o Filter(categories, Range(categories) \ {top})

BertTops == {"Billing", "General Support"}

BertScores ==
  {sc \in {<<a, b, Zero, Zero, Zero, Zero, Zero>> : a \in Levels, b \in Levels} :
     RLe(sc[2], sc[1]) /\ RLe(RAdd(sc[1], sc[2]), One)}

BertOutcomes ==
  {Raised} \cup
  {[raised |-> FALSE, labels |-> Ranking(top), scores |-> sc] : top \in BertTops, sc \in BertScores}

\* predict_proba: one probability per class, summing to 1
RECURSIVE SumR(_)
SumR(s) == IF s = <<>> THEN Zero ELSE RAdd(s[1], SumR(Tail(s)))

ProbVectors(n) == {p \in [1..n -> Levels] : SumR(p) = One}

TraditionalOutcomes(model) ==
  {Raised} \cup
  UNION {{[raised |-> FALSE, probs |-> p, order |-> o] : o \in ArgSorts(p)} :
           p \in ProbVectors(Len(model.classes))}

\* Ticket.category is a free CharField: the labels of training data need not be
\* configured categories
TrainingClasses == {<<"Billing", "Technical Issue">>, <<"Billing", "Shipping">>}

TrainingDatas ==
  {[t |-> "none"]} \cup
  {[t |-> "list", n |-> n, classes |-> IF n = 0 THEN <<>> ELSE cls] :
     n \in {0, MinTrainingExamples - 1, MinTrainingExamples}, cls \in TrainingClasses}

-----------------------------------------------------------------------------
(* Sentiment component scorers. *)

\* label_map.get(result['label'].upper(), 'neutral')
LabelMap(label) ==
  CASE label \in {"LABEL_0", "NEGATIVE"} -> "negative"
    [] label \in {"LABEL_2", "POSITIVE"} -> "positive"
    [] OTHER -> "neutral"

SignedScore(label, score) ==
  CASE label = "negative" -> RNeg(score)
    [] label = "positive" -> score
    [] OTHER -> Zero

\* p: what sentiment_pipeline(text)[0] was, [raised |-> TRUE] or [label, score]
analyze_with_transformer(pipeline, text, p) ==
  IF pipeline = "none" THEN [label |-> "neutral", score |-> R(1, 2)]
  ELSE IF p.raised THEN [label |-> "neutral", score |-> Zero, confidence |-> R(1, 2)]
  ELSE [label |-> LabelMap(upper(p.label)),
        score |-> SignedScore(LabelMap(upper(p.label)), p.score),
        confidence |-> p.score]

VaderThreshold == R(5, 100)
TextBlobThreshold == R(1, 10)

\* v: what vader.polarity_scores(text) was, [raised |-> TRUE] or [compound]
analyze_with_vader(vd, text, v) ==
  IF vd = "none" THEN [label |-> "neutral", score |-> Zero]
  ELSE IF v.raised THEN [label |-> "neutral", score |-> Zero]
  ELSE [label |-> CASE RLe(VaderThreshold, v.compound) -> "positive"
                    [] RLe(v.compound, RNeg(VaderThreshold)) -> "negative"
                    [] OTHER -> "neutral",
        score |-> v.compound,
        details |-> [compound |-> v.compound]]

\* tb: what TextBlob(text).sentiment was, [raised |-> TRUE] or [polarity, subjectivity]
analyze_with_textblob(enabled, text, tb) ==
  IF ~enabled THEN [label |-> "neutral", score |-> Zero]
  ELSE IF tb.raised THEN [label |-> "neutral", score |-> Zero]
  ELSE [label |-> CASE RLt(TextBlobThreshold, tb.polarity) -> "positive"
                    [] RLt(tb.polarity, RNeg(TextBlobThreshold)) -> "negative"
                    [] OTHER -> "neutral",
        score |-> tb.polarity,
        subjectivity |-> tb.subjectivity]

-----------------------------------------------------------------------------
(* Sentiment ensemble and analyze. *)

TransformerWeight == R(5, 10)
VaderWeight == R(3, 10)
TextBlobWeight == R(2, 10)
EnsembleThreshold == R(1, 10)

\* WeightedScore as the plain mean of the three scores
WeightedScoreUnweighted(transformer_result, vader_result, textblob_result) ==
  LET sum == RAdd(RAdd(transformer_result.score, vader_result.score), textblob_result.score)
  IN R(sum.n, sum.d * 3)

\* sum(s * w for s, w in zip(scores, weights)) / sum(weights): a dict with
\* keys is true, so all three results are always taken
WeightedScore(transformer_result, vader_result, textblob_result) ==
  LET total_weight == RAdd(RAdd(TransformerWeight, VaderWeight), TextBlobWeight)
      weighted == RAdd(RAdd(RMul(transformer_result.score, TransformerWeight),
                            RMul(vader_result.score, VaderWeight)),
                       RMul(textblob_result.score, TextBlobWeight))
  IN R(weighted.n * total_weight.d, weighted.d * total_weight.n)

\* SentimentOf with >= 0.1 and <= -0.1
SentimentOfInclusive(weighted_score) ==
  CASE RLe(EnsembleThreshold, weighted_score) -> "positive"
    [] RLe(weighted_score, RNeg(EnsembleThreshold)) -> "negative"
    [] OTHER -> "neutral"

SentimentOf(weighted_score) ==
  CASE RLt(EnsembleThreshold, weighted_score) -> "positive"
    [] RLt(weighted_score, RNeg(EnsembleThreshold)) -> "negative"
    [] OTHER -> "neutral"

EnsembleResult(weighted_score, transformer_result, vader_result, textblob_result) ==
  [sentiment |-> SentimentOf(weighted_score),
   score |-> weighted_score,
   confidence |-> RAbs(weighted_score),
   method |-> "ensemble",
   details |-> [transformer |-> transformer_result, vader |-> vader_result,
                textblob |-> textblob_result]]

ensemble_analysis(pipeline, vd, enabled, text, p, v, tb) ==
  EnsembleResult(WeightedScore(analyze_with_transformer(pipeline, text, p),
                               analyze_with_vader(vd, text, v),
                               analyze_with_textblob(enabled, text, tb)),
                 analyze_with_transformer(pipeline, text, p),
                 analyze_with_vader(vd, text, v),
                 analyze_with_textblob(enabled, text, tb))

\* the dict analyze builds from one component's result
TransformerAnswer(result) ==
  [sentiment |-> result.label, score |-> result.score,
   confidence |-> IF "confidence" \in DOMAIN result THEN result.confidence ELSE R(1, 2),
   method |-> "transformer"]

LexiconAnswer(result, method) ==
  [sentiment |-> result.label, score |-> result.score, confidence |-> RAbs(result.score),
   method |-> method]

\* analyze with the guard `if not text` alone, without text.strip()
analyze_without_strip(pipeline, vd, enabled, text, method, p, v, tb) ==
  CASE text = "" ->
         [sentiment |-> "neutral", score |-> Zero, confidence |-> Zero, method |-> method]
    [] method = "transformer" -> TransformerAnswer(analyze_with_transformer(pipeline, text, p))
    [] method = "vader" -> LexiconAnswer(analyze_with_vader(vd, text, v), "vader")
    [] method = "textblob" -> LexiconAnswer(analyze_with_textblob(enabled, text, tb), "textblob")
    [] OTHER -> ensemble_analysis(pipeline, vd, enabled, text, p, v, tb)

analyze(pipeline, vd, enabled, text, method, p, v, tb) ==
  CASE text = "" \/ IsBlank(text) ->
         [sentiment |-> "neutral", score |-> Zero, confidence |-> Zero, method |-> method]
    [] method = "transformer" -> TransformerAnswer(analyze_with_transformer(pipeline, text, p))
    [] method = "vader" -> LexiconAnswer(analyze_with_vader(vd, text, v), "vader")
    [] method = "textblob" -> LexiconAnswer(analyze_with_textblob(enabled, text, tb), "textblob")
    [] OTHER -> ensemble_analysis(pipeline, vd, enabled, text, p, v, tb)

\* which component scorers a call of analyze runs
Invokes(text, method) ==
  IF text = "" \/ IsBlank(text) THEN {}
  ELSE IF method \in {"transformer", "vader", "textblob"} THEN {method}
  ELSE {"transformer", "vader", "textblob"}

-----------------------------------------------------------------------------
(* Inputs of the sentiment analyzer. *)

SentimentTexts == {"", " \t", "I love this, thank you so much!"}

Methods == {"ensemble", "transformer", "vader", "textblob", "average"}

\* scores in [-1, 1], with the values around the label thresholds
Polarities ==
  {R(k, ConfDen) : k \in (-ConfDen)..ConfDen} \cup {R(k, 20) : k \in {-2, -1, 1, 2}}

PipelineLabels == {"LABEL_0", "LABEL_1", "LABEL_2", "NEGATIVE", "positive", "5 stars"}

PipelineOutcomes ==
  {Raised} \cup {[raised |-> FALSE, label |-> l, score |-> x] : l \in PipelineLabels, x \in Levels}

VaderOutcomes == {Raised} \cup {[raised |-> FALSE, compound |-> c] : c \in Polarities}

TextBlobOutcomes ==
  {Raised} \cup {[raised |-> FALSE, polarity |-> c, subjectivity |-> R(1, 2)] : c \in Polarities}

-----------------------------------------------------------------------------
(* SentimentAnalyzer.analyze_conversation.  A message is                     *)
(* [content, timestamp, p, v, tb]: its text, whether its timestamp is set,   *)
(* and what the three backends do when analyze is called on its text.        *)

ListV(l) == [t |-> "list", l |-> l]

RDiv(a, k) == R(a.n, a.d * k)

\* the default method of analyze
DefaultMethod == "ensemble"

\* the body of the for loop: msg.timestamp.isoformat() raises on None
MessageRaises(msg) == msg.timestamp = "none"

MessageResult(pipeline, vd, enabled, msg) ==
  analyze(pipeline, vd, enabled, msg.content, DefaultMethod, msg.p, msg.v, msg.tb)

OverallSentiment(average_score) ==
  CASE RLt(R(1, 10), average_score) -> "positive"
    [] RLt(average_score, R(-1, 10)) -> "negative"
    [] OTHER -> "neutral"

TrendWindow == 3
TrendMargin == R(2, 10)

TrendFrom(recent_avg, earlier_avg) ==
  CASE RLt(RAdd(earlier_avg, TrendMargin), recent_avg) -> "improving"
    [] RLt(recent_avg, RAdd(earlier_avg, RNeg(TrendMargin))) -> "declining"
    [] OTHER -> "stable"

SentimentTrend(scores) ==
  IF Len(scores) >= TrendWindow
    THEN TrendFrom(RDiv(SumR(LastK(scores, TrendWindow)), TrendWindow),
                   RDiv(SumR(SubSeq(scores, 1, Len(scores) - TrendWindow)),
                        Max1(Len(scores) - TrendWindow)))
    ELSE "stable"

ConversationFrom(results, scores) ==
  [overall_sentiment |-> OverallSentiment(RDiv(SumR(scores), Len(scores))),
   average_score |-> RDiv(SumR(scores), Len(scores)),
   sentiment_trend |-> StrV(SentimentTrend(scores)),
   message_sentiments |->
     [i \in DOMAIN results |-> [sentiment |-> results[i].sentiment, score |-> scores[i]]],
   error |-> FALSE]

ConversationOf(results) == ConversationFrom(results, [i \in DOMAIN results |-> results[i].score])

analyze_conversation(pipeline, vd, enabled, messages) ==
  IF messages = <<>>
    THEN [overall_sentiment |-> "neutral", average_score |-> Zero,
          sentiment_trend |-> ListV(<<>>), message_sentiments |-> <<>>, error |-> FALSE]
  ELSE IF \E i \in DOMAIN messages : MessageRaises(messages[i])
    THEN [overall_sentiment |-> "neutral", average_score |-> Zero,
          sentiment_trend |-> StrV("unknown"), message_sentiments |-> <<>>, error |-> TRUE]
  ELSE ConversationOf([i \in DOMAIN messages |->
                         MessageResult(pipeline, vd, enabled, messages[i])])

MaxConversation == 4

Positive == [raised |-> FALSE, label |-> "POSITIVE", score |-> One]
Negative == [raised |-> FALSE, label |-> "NEGATIVE", score |-> One]

\* a warm message, an angry one, a lukewarm one, an empty one, and one
\* whose timestamp is not set
ConversationMessages ==
  {[content |-> "I love this, thank you so much!", timestamp |-> "set", p |-> Positive,
    v |-> [raised |-> FALSE, compound |-> One],
    tb |-> [raised |-> FALSE, polarity |-> One, subjectivity |-> R(1, 2)]],
   [content |-> "This is broken and I am angry", timestamp |-> "set", p |-> Negative,
    v |-> [raised |-> FALSE, compound |-> R(-1, 1)],
    tb |-> [raised |-> FALSE, polarity |-> R(-1, 1), subjectivity |-> R(1, 2)]],
   [content |-> "It works, I guess", timestamp |-> "set", p |-> Raised,
    v |-> [raised |-> FALSE, compound |-> R(1, 2)],
    tb |-> [raised |-> FALSE, polarity |-> R(1, 20), subjectivity |-> R(1, 2)]],
   [content |-> "", timestamp |-> "set", p |-> Raised, v |-> Raised, tb |-> Raised],
   [content |-> "Hello", timestamp |-> "none", p |-> Raised, v |-> Raised, tb |-> Raised]}

Conversations == UNION {[1..n -> ConversationMessages] : n \in 0..MaxConversation}

-----------------------------------------------------------------------------
(* AIchatbotEngine.should_escalate.  A conversation is its two sentiment     *)
(* fields and the contents of its messages in the order of                   *)
(* conversation.messages.all(): Message.Meta.ordering = ['timestamp'],       *)
(* oldest first.                                                             *)

escalation_keywords ==
  <<"agent", "human", "person", "manager", "supervisor", "speak to someone">>

MessageContents == {"Thanks, that helped", "Let me talk to a HUMAN, please"}

\* any(keyword in msg.content.lower() for keyword in escalation_keywords)
HasEscalationKeyword ==
  [content \in MessageContents |->
     \E i \in DOMAIN escalation_keywords : In(escalation_keywords[i], lower(content))]

SentimentLimit == R(-1, 2)
LengthLimit == 10
CheckedMessages == 5

NegativeSentiment(conversation) ==
  conversation.overall_sentiment = "negative"
  /\ RLt(conversation.sentiment_score, SentimentLimit)

\* ExtendedConversation with >= 10
ExtendedConversationFromTen(conversation) == Len(conversation.messages) >= LengthLimit

ExtendedConversation(conversation) == Len(conversation.messages) > LengthLimit

\* recent_messages = conversation.messages.all()[:5]: the first five of the
\* queryset, which is ordered by timestamp
RequestedHuman(conversation) ==
  \E i \in DOMAIN Take(conversation.messages, CheckedMessages) :
    HasEscalationKeyword[conversation.messages[i]]

should_escalate(conversation) ==
  CASE NegativeSentiment(conversation) -> <<TRUE, "Negative sentiment detected">>
    [] ExtendedConversation(conversation) -> <<TRUE, "Extended conversation">>
    [] RequestedHuman(conversation) -> <<TRUE, "Customer requested human agent">>
    [] OTHER -> <<FALSE, "">>

MaxMessages == 11

StoredConversations ==
  {[overall_sentiment |-> o, sentiment_score |-> x, messages |-> m] :
     o \in {"positive", "negative", "neutral"},
     x \in {R(-1, 1), SentimentLimit, Zero},
     m \in UNION {[1..n -> MessageContents] : n \in 0..MaxMessages}}

-----------------------------------------------------------------------------
(* ml_models/sentiment_model.py: SentimentAnalysisModel, the second          *)
(* implementation of the same three scorers, ensemble and analyze.           *)

model_analyze_with_transformer(tm, text, p) ==
  IF tm = "none" THEN [label |-> "neutral", score |-> Zero]
  ELSE IF p.raised THEN [sentiment |-> "neutral", score |-> Zero, confidence |-> R(1, 2)]
  ELSE [sentiment |-> LabelMap(upper(p.label)),
        score |-> SignedScore(LabelMap(upper(p.label)), p.score),
        confidence |-> p.score]

model_analyze_with_vader(va, text, v) ==
  IF va = "none" THEN [sentiment |-> "neutral", score |-> Zero]
  ELSE IF v.raised THEN [sentiment |-> "neutral", score |-> Zero]
  ELSE [sentiment |-> CASE RLe(VaderThreshold, v.compound) -> "positive"
                        [] RLe(v.compound, RNeg(VaderThreshold)) -> "negative"
                        [] OTHER -> "neutral",
        score |-> v.compound,
        details |-> [compound |-> v.compound]]

\* textblob_enabled is set True by __init__ and never changed
model_analyze_with_textblob(text, tb) ==
  IF tb.raised THEN [sentiment |-> "neutral", score |-> Zero]
  ELSE [sentiment |-> CASE RLt(TextBlobThreshold, tb.polarity) -> "positive"
                        [] RLt(tb.polarity, RNeg(TextBlobThreshold)) -> "negative"
                        [] OTHER -> "neutral",
        score |-> tb.polarity,
        subjectivity |-> tb.subjectivity]

\* the weights dict of ensemble_analysis: no division by the total weight
ModelWeightedScore(transformer_result, vader_result, textblob_result) ==
  RAdd(RAdd(RMul(transformer_result.score, TransformerWeight),
            RMul(vader_result.score, VaderWeight)),
       RMul(textblob_result.score, TextBlobWeight))

model_ensemble_analysis(tm, va, text, p, v, tb) ==
  EnsembleResult(ModelWeightedScore(model_analyze_with_transformer(tm, text, p),
                                    model_analyze_with_vader(va, text, v),
                                    model_analyze_with_textblob(text, tb)),
                 model_analyze_with_transformer(tm, text, p),
                 model_analyze_with_vader(va, text, v),
                 model_analyze_with_textblob(text, tb))

\* result['method'] = ...; result['confidence'] = ...
With(result, key, value) ==
  [k \in DOMAIN result \cup {key} |-> IF k = key THEN value ELSE result[k]]

model_analyze(tm, va, text, method, p, v, tb) ==
  CASE text = "" \/ IsBlank(text) ->
         [sentiment |-> "neutral", score |-> Zero, confidence |-> Zero, method |-> method]
    [] method = "transformer" ->
         With(model_analyze_with_transformer(tm, text, p), "method", "transformer")
    [] method = "vader" ->
         With(With(model_analyze_with_vader(va, text, v), "method", "vader"),
              "confidence", RAbs(model_analyze_with_vader(va, text, v).score))
    [] method = "textblob" ->
         With(With(model_analyze_with_textblob(text, tb), "method", "textblob"),
              "confidence", RAbs(model_analyze_with_textblob(text, tb).score))
    [] OTHER -> model_ensemble_analysis(tm, va, text, p, v, tb)

-----------------------------------------------------------------------------
(* The classifier: state after construction, and its operations. *)

-----------------------------------------------------------------------------
(* Tickets: the status of a ticket, the pre_save receiver                    *)
(* track_ticket_changes and the periodic task auto_close_resolved_tickets.   *)
(* Time is counted in whole days.                                            *)

\* timedelta(days=7)
CloseDays == 7

MaxDays == 9
MaxChanges == 3

\* the values a client sets through update or bulk_update
UpdateStatuses == {"in_progress", "resolved", "reopened"}

\* the status part of track_ticket_changes: a history row when the status
\* differs from the stored one, and resolved_at set when the ticket becomes
\* resolved and has no resolved_at yet
TrackedInstance(old_ticket, instance, t) ==
  IF old_ticket.status # instance.status
     /\ instance.status = "resolved" /\ instance.resolved_at = NoneV
    THEN [instance EXCEPT !.resolved_at = IntV(t)]
    ELSE instance

TrackedHistory(old_ticket, instance, history, t) ==
  IF old_ticket.status # instance.status
    THEN Append(history, [timestamp |-> t, old_value |-> old_ticket.status,
                          new_value |-> instance.status])
    ELSE history

\* the tickets auto_close_resolved_tickets selects:
\* status='resolved', resolved_at__lt=cutoff_date
ToClose(tk, t) ==
  tk.status = "resolved" /\ tk.resolved_at # NoneV /\ tk.resolved_at.i < t - CloseDays

\* one ticket, just created: status defaults to 'new', resolved_at is null
InitTicketStore ==
  /\ now = 0
  /\ ticket = [status |-> "new", resolved_at |-> NoneV]
  /\ ticket_history = <<>>

InitialClasses == <<"Billing", "Technical Issue">>

InitClassifier ==
  /\ bert_classifier \in {"none", "loaded"}
  /\ \/ \* both files found and loaded
        /\ model_file = TrainedModel(0, InitialClasses)
        /\ vec_file = FittedVectorizer(0)
        /\ traditional_model = model_file
        /\ vectorizer = vec_file
     \/ \* a file is missing: new, untrained objects
        /\ model_file \in {[kind |-> "absent", run |-> 0, classes |-> <<>>],
                           TrainedModel(0, InitialClasses)}
        /\ vec_file \in {[kind |-> "absent", run |-> 0], FittedVectorizer(0)}
        /\ model_file.kind = "absent" \/ vec_file.kind = "absent"
        /\ traditional_model = UntrainedModel
        /\ vectorizer = UnfittedVectorizer
     \/ \* joblib.load raised
        /\ model_file = TrainedModel(0, InitialClasses)
        /\ vec_file = FittedVectorizer(0)
        /\ traditional_model = NoModel
        /\ vectorizer = NoVectorizer
  /\ runs = 0

Idle == [op |-> "idle"]
NoTrainer == [pc |-> "idle", run |-> 0, classes |-> <<>>]
NoCall == [pc |-> "idle", vec |-> NoVectorizer, model |-> NoModel]

\* SentimentAnalyzer.__init__: each setup_* leaves its backend or, when it
\* raised, None (False for TextBlob)
InitSentiment ==
  /\ sentiment_pipeline \in {"none", "loaded"}
  /\ vader \in {"none", "loaded"}
  /\ textblob_enabled \in BOOLEAN

\* SentimentAnalysisModel.__init__: a loader that raised leaves None
InitSentimentModel ==
  /\ transformer_model \in {"none", "loaded"}
  /\ vader_analyzer \in {"none", "loaded"}

Init ==
  /\ InitClassifier
  /\ sentiment_pipeline = "loaded" /\ vader = "loaded" /\ textblob_enabled = TRUE
  /\ transformer_model = "loaded" /\ vader_analyzer = "loaded"
  /\ trainer = NoTrainer /\ call = NoCall
  /\ InitTicketStore
  /\ last = Idle

\* the backend outcomes a classification can meet: a backend that is not
\* there is never called, and an unfitted one raises NotFittedError
BertMay == IF bert_classifier = "loaded" THEN BertOutcomes ELSE {Raised}

TraditionalMay ==
  IF traditional_model.kind = "trained" /\ vectorizer.kind = "fitted"
    THEN TraditionalOutcomes(traditional_model) ELSE {Raised}

TruthMay == IF traditional_model.kind = "untrained" THEN {"true", "raises"} ELSE {"true"}

ClassifyCategory ==
  /\ last.op = "idle"
  /\ \E text \in TicketTexts, b \in BertMay, t \in TraditionalMay, truth \in TruthMay :
       last' = [op |-> "classify_category", text |-> text, b |-> b, t |-> t, truth |-> truth,
                result |-> classify_category(text, bert_classifier, traditional_model,
                                             vectorizer, b, t, truth)]
  /\ UNCHANGED <<classifierVars, sentimentVars, modelVars, ticketVars, threadVars>>

ClassifyTicket ==
  /\ last.op = "idle"
  /\ \E tk \in Tickets, md \in Metadatas :
       \E b \in BertMay, t \in TraditionalMay, truth \in TruthMay :
         last' = [op |-> "classify_ticket", ticket |-> tk, metadata |-> md, b |-> b, t |-> t,
                  truth |-> truth,
                  result |-> classify_ticket(tk.title, tk.description, md, bert_classifier,
                                             traditional_model, vectorizer, b, t, truth)]
  /\ UNCHANGED <<classifierVars, sentimentVars, modelVars, ticketVars, threadVars>>

TrainTraditionalModel ==
  /\ last.op = "idle"
  /\ \E data \in TrainingDatas, outcome \in TrainOutcomes :
       LET r == runs + 1
           new_model == TrainedModel(r, IF data.t = "none" THEN <<>> ELSE data.classes)
       IN /\ IF NotEnoughData(data) THEN outcome = "ok" ELSE runs < MaxRuns
          /\ vectorizer' = IF FitsVectorizer(vectorizer, data, outcome)
                             THEN FittedVectorizer(r) ELSE vectorizer
          /\ traditional_model' = IF FitsModel(traditional_model, vectorizer, data, outcome)
                                    THEN new_model ELSE traditional_model
          /\ model_file' = IF DumpsModel(traditional_model, vectorizer, data, outcome)
                             THEN new_model ELSE model_file
          /\ vec_file' = IF DumpsVectorizer(traditional_model, vectorizer, data, outcome)
                           THEN FittedVectorizer(r) ELSE vec_file
          /\ runs' = IF NotEnoughData(data) THEN runs ELSE r
          /\ last' = [op |-> "train_traditional_model", data |-> data, outcome |-> outcome]
  /\ UNCHANGED <<bert_classifier, sentimentVars, modelVars, ticketVars, threadVars>>

\* the caller takes the result
Return ==
  /\ last.op # "idle"
  /\ last' = Idle
  /\ UNCHANGED <<classifierVars, sentimentVars, modelVars, ticketVars, threadVars>>

Next == ClassifyCategory \/ ClassifyTicket \/ TrainTraditionalModel \/ Return

Spec == Init /\ [][Next]_vars

-----------------------------------------------------------------------------
(* The scorers on their own: the sentiment analyzer, its three component     *)
(* scorers, the rule-based category classifier and the priority scorer.      *)

InitScoring ==
  /\ InitClassifier
  /\ bert_classifier = "none" /\ traditional_model = NoModel
  /\ InitSentiment
  /\ InitSentimentModel
  /\ trainer = NoTrainer /\ call = NoCall
  /\ InitTicketStore
  /\ last = Idle

\* the backend outcomes a call can meet: a backend that is not loaded, or a
\* scorer that is not invoked, is never called
PipelineMay(text, method) ==
  IF sentiment_pipeline = "loaded" /\ "transformer" \in Invokes(text, method)
    THEN PipelineOutcomes ELSE {Raised}

VaderMay(text, method) ==
  IF vader = "loaded" /\ "vader" \in Invokes(text, method) THEN VaderOutcomes ELSE {Raised}

TextBlobMay(text, method) ==
  IF textblob_enabled /\ "textblob" \in Invokes(text, method) THEN TextBlobOutcomes
  ELSE {Raised}

Analyze ==
  /\ last.op = "idle"
  /\ \E text \in SentimentTexts, method \in Methods :
       \E p \in PipelineMay(text, method), v \in VaderMay(text, method),
          tb \in TextBlobMay(text, method) :
         last' = [op |-> "analyze", text |-> text, method |-> method, p |-> p, v |-> v,
                  tb |-> tb, invoked |-> Invokes(text, method),
                  result |-> analyze(sentiment_pipeline, vader, textblob_enabled, text,
                                     method, p, v, tb)]
  /\ UNCHANGED <<classifierVars, sentimentVars, modelVars, ticketVars, threadVars>>

AnalyzeWithTransformer ==
  /\ last.op = "idle"
  /\ \E text \in SentimentTexts, p \in PipelineMay("x", "transformer") :
       last' = [op |-> "analyze_with_transformer", text |-> text, p |-> p,
                result |-> analyze_with_transformer(sentiment_pipeline, text, p)]
  /\ UNCHANGED <<classifierVars, sentimentVars, modelVars, ticketVars, threadVars>>

AnalyzeWithVader ==
  /\ last.op = "idle"
  /\ \E text \in SentimentTexts, v \in VaderMay("x", "vader") :
       last' = [op |-> "analyze_with_vader", text |-> text, v |-> v,
                result |-> analyze_with_vader(vader, text, v)]
  /\ UNCHANGED <<classifierVars, sentimentVars, modelVars, ticketVars, threadVars>>

AnalyzeWithTextBlob ==
  /\ last.op = "idle"
  /\ \E text \in SentimentTexts, tb \in TextBlobMay("x", "textblob") :
       last' = [op |-> "analyze_with_textblob", text |-> text, tb |-> tb,
                result |-> analyze_with_textblob(textblob_enabled, text, tb)]
  /\ UNCHANGED <<classifierVars, sentimentVars, modelVars, ticketVars, threadVars>>

\* SentimentAnalyzer.ensemble_analysis, called on its own
EnsembleAnalysis ==
  /\ last.op = "idle"
  /\ \E text \in SentimentTexts :
       \E p \in PipelineMay("x", "ensemble"), v \in VaderMay("x", "ensemble"),
          tb \in TextBlobMay("x", "ensemble") :
         last' = [op |-> "ensemble_analysis", text |-> text, p |-> p, v |-> v, tb |-> tb,
                  result |-> ensemble_analysis(sentiment_pipeline, vader, textblob_enabled,
                                               text, p, v, tb)]
  /\ UNCHANGED <<classifierVars, sentimentVars, modelVars, ticketVars, threadVars>>

ModelPipelineMay(text, method) ==
  IF transformer_model = "loaded" /\ "transformer" \in Invokes(text, method)
    THEN PipelineOutcomes ELSE {Raised}

ModelVaderMay(text, method) ==
  IF vader_analyzer = "loaded" /\ "vader" \in Invokes(text, method)
    THEN VaderOutcomes ELSE {Raised}

ModelTextBlobMay(text, method) ==
  IF "textblob" \in Invokes(text, method) THEN TextBlobOutcomes ELSE {Raised}

\* SentimentAnalysisModel.analyze
ModelAnalyze ==
  /\ last.op = "idle"
  /\ \E text \in SentimentTexts, method \in Methods :
       \E p \in ModelPipelineMay(text, method), v \in ModelVaderMay(text, method),
          tb \in ModelTextBlobMay(text, method) :
         last' = [op |-> "model_analyze", text |-> text, method |-> method, p |-> p,
                  v |-> v, tb |-> tb, invoked |-> Invokes(text, method),
                  result |-> model_analyze(transformer_model, vader_analyzer, text, method,
                                           p, v, tb)]
  /\ UNCHANGED <<classifierVars, sentimentVars, modelVars, ticketVars, threadVars>>

\* SentimentAnalysisModel.ensemble_analysis, called on its own
ModelEnsembleAnalysis ==
  /\ last.op = "idle"
  /\ \E text \in SentimentTexts :
       \E p \in ModelPipelineMay("x", "ensemble"), v \in ModelVaderMay("x", "ensemble"),
          tb \in ModelTextBlobMay("x", "ensemble") :
         last' = [op |-> "model_ensemble_analysis", text |-> text, p |-> p, v |-> v,
                  tb |-> tb,
                  result |-> model_ensemble_analysis(transformer_model, vader_analyzer, text,
                                                     p, v, tb)]
  /\ UNCHANGED <<classifierVars, sentimentVars, modelVars, ticketVars, threadVars>>

ClassifyWithRules ==
  /\ last.op = "idle"
  /\ \E text \in TicketTexts :
       last' = [op |-> "classify_with_rules", text |-> text,
                result |-> classify_with_rules(text)]
  /\ UNCHANGED <<classifierVars, sentimentVars, modelVars, ticketVars, threadVars>>

ClassifyPriority ==
  /\ last.op = "idle"
  /\ \E tk \in Tickets, md \in Metadatas :
       last' = [op |-> "classify_priority", ticket |-> tk, metadata |-> md,
                result |-> classify_priority(tk.title, tk.description, MetaOrEmpty(md))]
  /\ UNCHANGED <<classifierVars, sentimentVars, modelVars, ticketVars, threadVars>>

NextScoring ==
  \/ Analyze \/ AnalyzeWithTransformer \/ AnalyzeWithVader \/ AnalyzeWithTextBlob
  \/ EnsembleAnalysis \/ ModelAnalyze \/ ModelEnsembleAnalysis
  \/ ClassifyWithRules \/ ClassifyPriority \/ Return

SpecScoring == InitScoring /\ [][NextScoring]_vars

-----------------------------------------------------------------------------
(* Conversations: the sentiment of a whole conversation, and escalation.     *)

InitConversation ==
  /\ InitClassifier
  /\ bert_classifier = "none" /\ traditional_model = NoModel
  /\ InitSentiment
  /\ transformer_model = "loaded" /\ vader_analyzer = "loaded"
  /\ trainer = NoTrainer /\ call = NoCall
  /\ InitTicketStore
  /\ last = Idle

AnalyzeConversation ==
  /\ last.op = "idle"
  /\ \E messages \in Conversations :
       last' = [op |-> "analyze_conversation", messages |-> messages,
                result |-> analyze_conversation(sentiment_pipeline, vader, textblob_enabled,
                                                messages)]
  /\ UNCHANGED <<classifierVars, sentimentVars, modelVars, ticketVars, threadVars>>

NextConversation == AnalyzeConversation \/ Return

SpecConversation == InitConversation /\ [][NextConversation]_vars

-----------------------------------------------------------------------------
(* Escalation on its own (SpecEscalation).                                   *)

ShouldEscalate ==
  /\ last.op = "idle"
  /\ \E conversation \in StoredConversations :
       last' = [op |-> "should_escalate", conversation |-> conversation,
                result |-> should_escalate(conversation)]
  /\ UNCHANGED <<classifierVars, sentimentVars, modelVars, ticketVars, threadVars>>

NextEscalation == ShouldEscalate \/ Return

\* the process as it starts with every backend loaded: should_escalate is a
\* static method and reads the conversation alone
InitEscalation ==
  /\ Init
  /\ bert_classifier = "loaded"
  /\ traditional_model.kind = "trained"

SpecEscalation == InitEscalation /\ [][NextEscalation]_vars

\* the messages that hold an escalation keyword
KeywordAt(conversation) ==
  {i \in DOMAIN conversation.messages : HasEscalationKeyword[conversation.messages[i]]}

\* C16: should_escalate answers with the reason of the first condition that
\* holds, in the order negative sentiment with score < -0.5, more than 10
\* messages, escalation keyword, and (False, '') when none holds; 11 neutral
\* messages escalate as 'Extended conversation', 10 never do on length.
C16_FirstConditionDecides ==
  last.op = "should_escalate"
  => LET c == last.conversation
         negative == c.overall_sentiment = "negative" /\ RLt(c.sentiment_score, R(-1, 2))
     IN /\ negative => last.result = <<TRUE, "Negative sentiment detected">>
        /\ (~negative /\ Len(c.messages) > 10)
           => last.result = <<TRUE, "Extended conversation">>
        /\ (~negative /\ Len(c.messages) <= 10)
           => /\ last.result \in {<<TRUE, "Customer requested human agent">>, <<FALSE, "">>}
              /\ last.result[1] => KeywordAt(c) # {}
              /\ KeywordAt(c) = {} => last.result = <<FALSE, "">>

\* 11 messages, neutral, a keyword in the first of them: the length decides
C16_Witness ==
  /\ last.op = "should_escalate"
  /\ last.conversation.overall_sentiment = "neutral"
  /\ Len(last.conversation.messages) = 11
  /\ 1 \in KeywordAt(last.conversation)
  /\ last.result = <<TRUE, "Extended conversation">>

\* C17: a conversation that escalates on neither sentiment nor length
\* escalates as 'Customer requested human agent' if and only if one of its 5
\* most recent messages holds an escalation keyword.
C17_KeywordInFiveMostRecent ==
  (/\ last.op = "should_escalate"
   /\ ~NegativeSentiment(last.conversation)
   /\ ~ExtendedConversation(last.conversation))
  => (last.result = <<TRUE, "Customer requested human agent">>
      <=> \E i \in KeywordAt(last.conversation) :
            i > Len(last.conversation.messages) - 5)

\* C14: analyze_conversation on 0, 1 or 2 messages answers trend 'stable'.
C14_FewMessagesAreStable ==
  (last.op = "analyze_conversation" /\ Len(last.messages) < 3)
  => last.result.sentiment_trend = StrV("stable")

\* C15: every result of analyze_conversation has a trend that is one of
\* improving, stable, declining, also for no messages and for a message
\* whose processing raises.
C15_TrendInEnumeration ==
  last.op = "analyze_conversation"
  => last.result.sentiment_trend \in {StrV("improving"), StrV("stable"), StrV("declining")}

\* the scores of the messages of the last result
ResultScores == [i \in DOMAIN last.result.message_sentiments |->
                   last.result.message_sentiments[i].score]

Mean(scores) == RDiv(SumR(scores), Len(scores))

\* the baseline as stated: the mean of the scores before the last 3, or of
\* all scores when fewer than 3 precede the last 3
StatedBaseline(scores) ==
  IF Len(scores) - 3 < 3 THEN Mean(scores) ELSE Mean(SubSeq(scores, 1, Len(scores) - 3))

\* C26: for 3 or more messages the trend is improving when the mean of the
\* last 3 scores is above the baseline + 0.2, declining when it is below the
\* baseline - 0.2 and stable otherwise, the baseline being the mean of the
\* scores before the last 3, or of all scores when fewer than 3 precede.
C26_TrendAgainstBaseline ==
  (/\ last.op = "analyze_conversation"
   /\ ~last.result.error
   /\ Len(last.messages) >= 3)
  => LET scores == ResultScores
         recent == Mean(SubSeq(scores, Len(scores) - 2, Len(scores)))
         baseline == StatedBaseline(scores)
     IN last.result.sentiment_trend =
          StrV(CASE RLt(RAdd(baseline, R(2, 10)), recent) -> "improving"
                 [] RLt(recent, RAdd(baseline, R(-2, 10))) -> "declining"
                 [] OTHER -> "stable")

-----------------------------------------------------------------------------
(* The life of a ticket (SpecTickets).                                       *)

InitTickets == Init /\ bert_classifier = "loaded" /\ traditional_model.kind = "trained"

\* ticket.save(): the pre_save receiver runs, then the row is written
Save(instance) ==
  /\ ticket' = TrackedInstance(ticket, instance, now)
  /\ ticket_history' = TrackedHistory(ticket, instance, ticket_history, now)

\* TicketViewSet.resolve
Resolve ==
  /\ last.op = "idle"
  /\ Len(ticket_history) < MaxChanges
  /\ Save([ticket EXCEPT !.status = "resolved", !.resolved_at = IntV(now)])
  /\ last' = [op |-> "resolve"]
  /\ UNCHANGED <<classifierVars, sentimentVars, modelVars, threadVars, now>>

\* TicketViewSet.bulk_update (and update) with a status
UpdateStatus ==
  /\ last.op = "idle"
  /\ Len(ticket_history) < MaxChanges
  /\ \E statu \in UpdateStatuses :
       /\ Save([ticket EXCEPT !.status = statu])
       /\ last' = [op |-> "bulk_update", status |-> statu]
  /\ UNCHANGED <<classifierVars, sentimentVars, modelVars, threadVars, now>>

\* the periodic task
AutoCloseResolvedTickets ==
  /\ last.op = "idle"
  /\ IF ToClose(ticket, now)
       THEN /\ Save([ticket EXCEPT !.status = "closed"])
            /\ last' = [op |-> "auto_close_resolved_tickets", count |-> 1]
       ELSE /\ UNCHANGED <<ticket, ticket_history>>
            /\ last' = [op |-> "auto_close_resolved_tickets", count |-> 0]
  /\ UNCHANGED <<classifierVars, sentimentVars, modelVars, threadVars, now>>

\* a day passes
Tick ==
  /\ now < MaxDays
  /\ now' = now + 1
  /\ UNCHANGED <<classifierVars, sentimentVars, modelVars, threadVars, ticket,
                 ticket_history, last>>

TicketReturn ==
  /\ last.op # "idle"
  /\ last' = Idle
  /\ UNCHANGED <<classifierVars, sentimentVars, modelVars, ticketVars, threadVars>>

NextTickets == Resolve \/ UpdateStatus \/ AutoCloseResolvedTickets \/ Tick \/ TicketReturn

SpecTickets == InitTickets /\ [][NextTickets]_vars

\* the day the ticket last became resolved, by its history
ResolvedSince ==
  ticket_history[CHOOSE i \in DOMAIN ticket_history :
                   /\ ticket_history[i].new_value = "resolved"
                   /\ \A j \in DOMAIN ticket_history :
                        ticket_history[j].new_value = "resolved" => j <= i].timestamp

\* C27: whatever the status changes before it (resolve, reopen, resolve
\* again), a ticket that auto_close_resolved_tickets closes has been resolved
\* without interruption for more than 7 days.
C27_ClosedAfterSevenDaysResolved ==
  (last.op = "auto_close_resolved_tickets" /\ last.count = 1)
  => /\ ticket.status = "closed"
     /\ now - ResolvedSince > CloseDays

-----------------------------------------------------------------------------
(* Retraining while a classification is in flight.  The classifier is a      *)
(* module-level singleton with no lock: the statements of                    *)
(* train_traditional_model and of _classify_with_traditional interleave.     *)

InitThreads ==
  /\ InitClassifier
  /\ sentiment_pipeline = "loaded" /\ vader = "loaded" /\ textblob_enabled = TRUE
  /\ transformer_model = "loaded" /\ vader_analyzer = "loaded"
  /\ trainer = NoTrainer /\ call = NoCall
  /\ InitTicketStore
  /\ last = Idle

TrainerAt(pc) == [trainer EXCEPT !.pc = pc]

\* the size check passed: texts, labels = zip(*training_data)
TrainBegin ==
  /\ trainer.pc = "idle"
  /\ runs < MaxRuns
  /\ \E data \in {d \in TrainingDatas : ~NotEnoughData(d)} :
       trainer' = [pc |-> "fit_vectorizer", run |-> runs + 1, classes |-> data.classes]
  /\ runs' = runs + 1
  /\ UNCHANGED <<bert_classifier, traditional_model, vectorizer, model_file, vec_file,
                 sentimentVars, modelVars, ticketVars, call, last>>

\* X = self.vectorizer.fit_transform(texts): fits the shared object in place
TrainFitVectorizer ==
  /\ trainer.pc = "fit_vectorizer"
  /\ vectorizer.kind # "none"
  /\ vectorizer' = FittedVectorizer(trainer.run)
  /\ trainer' = TrainerAt("fit_model")
  /\ UNCHANGED <<bert_classifier, traditional_model, model_file, vec_file, runs,
                 sentimentVars, modelVars, ticketVars, call, last>>

\* self.traditional_model.fit(X, labels): fits the shared object in place
TrainFitModel ==
  /\ trainer.pc = "fit_model"
  /\ traditional_model.kind # "none"
  /\ traditional_model' = TrainedModel(trainer.run, trainer.classes)
  /\ trainer' = TrainerAt("dump_model")
  /\ UNCHANGED <<bert_classifier, vectorizer, model_file, vec_file, runs,
                 sentimentVars, modelVars, ticketVars, call, last>>

TrainDumpModel ==
  /\ trainer.pc = "dump_model"
  /\ model_file' = traditional_model
  /\ trainer' = TrainerAt("dump_vectorizer")
  /\ UNCHANGED <<bert_classifier, traditional_model, vectorizer, vec_file, runs,
                 sentimentVars, modelVars, ticketVars, call, last>>

TrainDumpVectorizer ==
  /\ trainer.pc = "dump_vectorizer"
  /\ vec_file' = vectorizer
  /\ trainer' = NoTrainer
  /\ UNCHANGED <<bert_classifier, traditional_model, vectorizer, model_file, runs,
                 sentimentVars, modelVars, ticketVars, call, last>>

\* the statement the trainer is at raises: the except branch logs and returns
TrainRaises ==
  /\ trainer.pc # "idle"
  /\ trainer' = NoTrainer
  /\ UNCHANGED <<classifierVars, sentimentVars, modelVars, ticketVars, call, last>>

\* _classify_category found both objects true and calls
\* _classify_with_traditional (directly or from the ensemble)
CallBegin ==
  /\ call.pc = "idle"
  /\ \E truth \in TruthMay : PairTruth(traditional_model, vectorizer, truth) = "true"
  /\ call' = [NoCall EXCEPT !.pc = "transform"]
  /\ UNCHANGED <<classifierVars, sentimentVars, modelVars, ticketVars, trainer, last>>

\* X = self.vectorizer.transform([text])
CallTransform ==
  /\ call.pc = "transform"
  /\ call' = IF vectorizer.kind = "fitted"
               THEN [call EXCEPT !.pc = "predict", !.vec = vectorizer]
               ELSE [call EXCEPT !.pc = "rules"]
  /\ UNCHANGED <<classifierVars, sentimentVars, modelVars, ticketVars, trainer, last>>

\* probs = self.traditional_model.predict_proba(X)[0]
CallPredict ==
  /\ call.pc = "predict"
  /\ call' = IF traditional_model.kind = "trained"
               THEN [call EXCEPT !.pc = "predicted", !.model = traditional_model]
               ELSE [call EXCEPT !.pc = "rules"]
  /\ UNCHANGED <<classifierVars, sentimentVars, modelVars, ticketVars, trainer, last>>

CallReturn ==
  /\ call.pc \in {"predicted", "rules"}
  /\ call' = NoCall
  /\ UNCHANGED <<classifierVars, sentimentVars, modelVars, ticketVars, trainer, last>>

NextThreads ==
  \/ TrainBegin \/ TrainFitVectorizer \/ TrainFitModel \/ TrainDumpModel
  \/ TrainDumpVectorizer \/ TrainRaises
  \/ CallBegin \/ CallTransform \/ CallPredict \/ CallReturn

SpecThreads == InitThreads /\ [][NextThreads]_vars

-----------------------------------------------------------------------------
(* Properties of the classifier (Spec).                                      *)

\* C1: for every input and every combination of backends, the category that
\* classify_ticket returns is one of TicketClassifier.categories.
C1_CategoryFromConfiguredList ==
  last.op = "classify_ticket" => last.result.category \in Range(categories)

\* C5, as stated: with the zero-shot classifier available and the statistical
\* classifier unavailable, category classification reports method=ensemble,
\* the vote of the zero-shot prediction at 0.6 and the rules prediction at 0.1.
C5_EnsembleWithoutStatistical ==
  (/\ last.op = "classify_category"
   /\ bert_classifier = "loaded" /\ ~last.b.raised
   /\ traditional_model.kind = "none")
  => /\ ~last.result.raised
     /\ last.result.value.method = "ensemble"
     /\ last.result.value =
          EnsembleDecision(SortedDesc(Accumulate(
            <<Component(classify_with_bert(last.text, last.b), BertWeight),
              Component(classify_with_rules(last.text), RulesWeight)>>, <<>>)))

\* C5, amended: with the zero-shot classifier available and the statistical
\* classifier absent (None), there is no vote: the answer is the zero-shot
\* prediction alone, method=bert with the top label and its score, or, when
\* the zero-shot call raised, the rules prediction with method=rules; an
\* answer with method=ensemble needs the model and the vectorizer both present.
C5_ZeroShotAloneWithoutStatistical ==
  /\ (/\ last.op = "classify_category"
      /\ bert_classifier = "loaded"
      /\ traditional_model.kind = "none")
     => /\ ~last.result.raised
        /\ IF last.b.raised
             THEN last.result.value = RulesOfTickets[last.text]
             ELSE /\ last.result.value.method = "bert"
                  /\ last.result.value.category = last.b.labels[1]
                  /\ last.result.value.confidence = last.b.scores[1]
  /\ (/\ last.op = "classify_category"
      /\ ~last.result.raised
      /\ last.result.value.method = "ensemble")
     => /\ bert_classifier = "loaded"
        /\ traditional_model.kind # "none"
        /\ vectorizer.kind # "none"

\* the zero-shot classifier answered alone, the statistical one being absent
C5_Witness ==
  /\ last.op = "classify_category"
  /\ bert_classifier = "loaded"
  /\ traditional_model.kind = "none"
  /\ ~last.b.raised
  /\ ~last.result.raised
  /\ last.result.value.method = "bert"
  /\ last.result.value.category # RulesOfTickets[last.text].category

\* C6: a statistical classifier that was never trained is skipped by category
\* classification: the classification goes through, and no component enters
\* the ensemble at the statistical weight.
C6_UntrainedIsSkipped ==
  (last.op = "classify_category" /\ traditional_model.kind = "untrained")
  => /\ ~last.result.raised
     /\ last.result.value.method = "ensemble"
        => \A i \in DOMAIN EnsembleComponents(last.text, bert_classifier, traditional_model,
                                              vectorizer, last.b, last.t, last.truth) :
             EnsembleComponents(last.text, bert_classifier, traditional_model, vectorizer,
                                last.b, last.t, last.truth)[i].weight # TraditionalWeight

\* the predictions of the components that did not raise, with the rules
SucceededComponents(text, model, vec, b, t) ==
  (IF b.raised THEN <<>> ELSE <<Component(classify_with_bert(text, b), BertWeight)>>)
  \o (IF TraditionalRaises(model, vec, t) THEN <<>>
      ELSE <<Component(classify_with_traditional(text, model, vec, t), TraditionalWeight)>>)
  \o <<Component(classify_with_rules(text), RulesWeight)>>

\* C7: when one of the two components, zero-shot or statistical, raises during
\* ensemble classification, the answer still has method=ensemble and its
\* category and confidence are those of the vote over the components that
\* succeeded.
C7_EnsembleOfSucceededComponents ==
  (/\ last.op = "classify_category"
   /\ bert_classifier = "loaded"
   /\ traditional_model.kind = "trained" /\ vectorizer.kind = "fitted"
   /\ last.b.raised # last.t.raised)
  => /\ ~last.result.raised
     /\ last.result.value.method = "ensemble"
     /\ last.result.value.category =
          EnsembleDecision(SortedDesc(Accumulate(
            SucceededComponents(last.text, traditional_model, vectorizer, last.b, last.t),
            <<>>))).category
     /\ last.result.value.confidence =
          EnsembleDecision(SortedDesc(Accumulate(
            SucceededComponents(last.text, traditional_model, vectorizer, last.b, last.t),
            <<>>))).confidence

\* C8: classify_ticket always returns a result; when a step inside it raised
\* (the priority scorer on metadata whose sla_hours or previous_escalations is
\* not a number, or the truth test of the model), the result is General
\* Support at 0.5, medium at 0.5, no tags, team general.
C8_FallbackWhenAStepRaises ==
  last.op = "classify_ticket"
  => /\ {"category", "priority", "tags", "suggested_team"} \subseteq DOMAIN last.result
     /\ (\/ MetaRaises(MetaOrEmpty(last.metadata))
         \/ PairTruth(traditional_model, vectorizer, last.truth) = "raises")
        => /\ last.result.category = "General Support"
           /\ last.result.category_confidence = R(1, 2)
           /\ last.result.priority = "medium"
           /\ last.result.priority_confidence = R(1, 2)
           /\ last.result.tags = <<>>
           /\ last.result.suggested_team = "general"

\* the priority scorer raised on a ticket whose classification, had it gone
\* through, is neither General Support nor medium
C8_Witness ==
  /\ last.op = "classify_ticket"
  /\ MetaRaises(MetaOrEmpty(last.metadata))
  /\ last.ticket.title = "System is down, urgent!!"
  /\ last.result.error
  /\ last.result.category = "General Support"

\* the components of the last ensemble run
LastComponents ==
  EnsembleComponents(last.text, bert_classifier, traditional_model, vectorizer,
                     last.b, last.t, last.truth)

\* confidence * weight of component i when it predicted the category, else 0
Share(components, i, category) ==
  IF i <= Len(components) /\ components[i].category = category
    THEN RMul(components[i].confidence, components[i].weight) ELSE Zero

\* the sum of confidence * weight over the (at most three) components that
\* predicted the category
Accumulated(components, category) ==
  RAdd(RAdd(Share(components, 1, category), Share(components, 2, category)),
       Share(components, 3, category))

PredictedCategories(components) == {components[i].category : i \in DOMAIN components}

\* C22: in the category ensemble every component adds confidence * weight
\* (0.6, 0.3, 0.1) to the score of the category it predicted; the answer is a
\* category of largest accumulated score with that score as confidence, and
\* top_predictions are the up to 3 best categories, best first.
C22_EnsembleAccumulates ==
  (/\ last.op = "classify_category"
   /\ ~last.result.raised
   /\ last.result.value.method = "ensemble")
  => LET result == last.result.value
         top == result.top_predictions
         cats == PredictedCategories(LastComponents)
     IN /\ result.category \in cats
        /\ result.confidence = Accumulated(LastComponents, result.category)
        /\ \A c \in cats : RLe(Accumulated(LastComponents, c), result.confidence)
        /\ Len(top) = (IF Cardinality(cats) < 3 THEN Cardinality(cats) ELSE 3)
        /\ \A i \in DOMAIN top :
             /\ top[i].category \in cats
             /\ top[i].confidence = Accumulated(LastComponents, top[i].category)
             /\ \A j \in DOMAIN top : i < j =>
                  /\ top[i].category # top[j].category
                  /\ RLe(top[j].confidence, top[i].confidence)
             /\ \A c \in cats \ {top[k].category : k \in DOMAIN top} :
                  RLe(Accumulated(LastComponents, c), top[i].confidence)

\* three components ran, zero-shot and rules agreed and the statistical
\* model predicted another category
C22_Witness ==
  /\ last.op = "classify_category"
  /\ ~last.result.raised
  /\ last.result.value.method = "ensemble"
  /\ Len(LastComponents) = 3
  /\ LastComponents[1].category = LastComponents[3].category
  /\ LastComponents[2].category # LastComponents[1].category
  /\ Len(last.result.value.top_predictions) = 2
  /\ RLt(RMul(LastComponents[1].confidence, BertWeight), last.result.value.confidence)

\* the last ensemble run had three components that all predicted one category
\* with confidence 1
StrongAgreement ==
  /\ last.op = "classify_category"
  /\ ~last.result.raised
  /\ last.result.value.method = "ensemble"
  /\ Len(LastComponents) = 3
  /\ \A i \in 1..3 : /\ LastComponents[i].category = LastComponents[1].category
                      /\ LastComponents[i].confidence = One

\* C23 as stated: the ensemble confidence exceeds 1 when the components,
\* each with a confidence in [0, 1], agree strongly.
C23_StrongAgreementExceedsOne ==
  StrongAgreement => RLt(One, last.result.value.confidence)

\* C23 amended: with every component confidence in [0, 1] the ensemble
\* confidence is at most 1, the sum of the weights 0.6, 0.3 and 0.1.
C23_EnsembleConfidenceAtMostOne ==
  (/\ last.op = "classify_category"
   /\ ~last.result.raised
   /\ last.result.value.method = "ensemble"
   /\ \A i \in DOMAIN LastComponents : InUnit(LastComponents[i].confidence))
  => RLe(last.result.value.confidence, One)

\* the bound is met: three components agree with confidence 1
C23_Witness ==
  StrongAgreement /\ last.result.value.confidence = One

\* C28: when train_traditional_model has returned, after success or after an
\* exception part-way, the vectorizer and the model in memory are of one
\* training run, and so are the two files.
C28_PairsOfOneRunAfterTraining ==
  last.op = "train_traditional_model"
  => /\ vectorizer.run = traditional_model.run
     /\ vec_file.run = model_file.run

\* C29: whatever the method (rules, zero-shot, statistical, ensemble), the
\* first entry of top_predictions carries the category and the confidence
\* of the answer, also when several categories tie for the first place.
C29_FirstTopPredictionIsTheAnswer ==
  (last.op = "classify_category" /\ ~last.result.raised)
  => /\ Len(last.result.value.top_predictions) >= 1
     /\ last.result.value.top_predictions[1].category = last.result.value.category
     /\ last.result.value.top_predictions[1].confidence = last.result.value.confidence

\* C18: for the ticket 'System is down, urgent!!' / 'Production is broken,
\* can't access anything', with no trained statistical model and the rules
\* deciding the category, classify_ticket answers Technical Issue, urgent.
C18_SystemDownScenario ==
  (/\ last.op = "classify_ticket"
   /\ last.ticket = [title |-> "System is down, urgent!!",
                     description |-> "Production is broken, can't access anything"]
   /\ last.metadata = [t |-> "none"]
   /\ traditional_model.kind = "none"
   /\ ~last.result.error
   /\ last.result.classification_method = "rules")
  => /\ last.result.category = "Technical Issue"
     /\ last.result.priority = "urgent"

TooFewExamples(data) ==
  IF data.t = "none" THEN TRUE ELSE data.n < MinTrainingExamples

\* C10: train_traditional_model called with no data, an empty list or fewer
\* than 20 examples leaves the vectorizer, the model and the two persisted
\* files as they were.
C10_TooFewExamplesChangeNothing ==
  [][(last'.op = "train_traditional_model" /\ TooFewExamples(last'.data))
     => UNCHANGED <<traditional_model, vectorizer, model_file, vec_file>>]_vars

\* a call with 19 examples returned on a classifier that holds a trained pair
C10_Witness ==
  /\ last.op = "train_traditional_model"
  /\ last.data.t = "list"
  /\ last.data.n = MinTrainingExamples - 1
  /\ traditional_model.kind = "trained"
  /\ vectorizer.kind = "fitted"

-----------------------------------------------------------------------------
(* Properties of the scorers (SpecScoring).                                  *)

\* the metadata dict without one key
Without(d, key) == [k \in DOMAIN d \ {key} |-> d[k]]

\* the raw bucket scores (urgent, high, medium, low) of a priority result
RawScores(result) == [i \in DOMAIN result.scores |-> result.scores[i].score.n]

\* the raw scores of the last classify_priority call made without one key
RawScoresWithout(key) ==
  RawScores(classify_priority(last.ticket.title, last.ticket.description,
                              Without(last.metadata.d, key)))

\* C19: sla_hours <= 2 adds 3 to urgent and nothing to high, 2 < sla_hours
\* <= 8 adds 2 to high and nothing to urgent, sla_hours > 8 adds nothing;
\* medium and low never move; and sla_hours = 1 alone on a text without
\* priority keywords gives priority urgent.
C19_SlaHoursAdjustment ==
  (/\ last.op = "classify_priority"
   /\ ~last.result.raised
   /\ last.metadata.t = "dict"
   /\ "sla_hours" \in DOMAIN last.metadata.d)
  => LET sla == last.metadata.d.sla_hours.i
         with == RawScores(last.result)
         base == RawScoresWithout("sla_hours")
     IN /\ with[1] - base[1] = IF sla <= 2 THEN 3 ELSE 0
        /\ with[2] - base[2] = IF 2 < sla /\ sla <= 8 THEN 2 ELSE 0
        /\ with[3] = base[3] /\ with[4] = base[4]
        /\ (last.metadata.d = [sla_hours |-> IntV(1)] /\ base = <<0, 0, 0, 0>>)
           => last.result.priority = "urgent"

\* sla_hours = 1 alone, on a ticket without priority keywords, gave urgent
C19_Witness ==
  /\ last.op = "classify_priority"
  /\ last.metadata = [t |-> "dict", d |-> [sla_hours |-> IntV(1)]]
  /\ last.ticket.description = "Hello"
  /\ RawScores(last.result) = <<3, 0, 0, 0>>
  /\ last.result.priority = "urgent"

\* C20: customer_tier = 'vip' raises the raw score of high by exactly 3 and
\* leaves urgent, medium and low as they are without that key, whatever the
\* ticket and the other metadata.
C20_VipAddsThreeToHigh ==
  (/\ last.op = "classify_priority"
   /\ ~last.result.raised
   /\ last.metadata.t = "dict"
   /\ "customer_tier" \in DOMAIN last.metadata.d
   /\ last.metadata.d.customer_tier = StrV("vip"))
  => LET with == RawScores(last.result)
         base == RawScoresWithout("customer_tier")
     IN with = <<base[1], base[2] + 3, base[3], base[4]>>

\* a vip ticket that also has an escalation and an SLA of 8 hours
C20_Witness ==
  /\ last.op = "classify_priority"
  /\ ~last.result.raised
  /\ last.metadata.t = "dict"
  /\ DOMAIN last.metadata.d = {"customer_tier", "previous_escalations", "sla_hours"}
  /\ last.metadata.d.customer_tier = StrV("vip")
  /\ RawScores(last.result)[2] = RawScoresWithout("customer_tier")[2] + 3
  /\ RawScoresWithout("customer_tier")[2] >= 4

\* some keyword of some category occurs in the lowercased text
SomeKeywordOccurs(text) ==
  \E i \in DOMAIN keyword_map : \E j \in DOMAIN keyword_map[i].kws :
    In(keyword_map[i].kws[j], lower(text))

\* C24: when no keyword of any category occurs in the lowercased text, the
\* rules classifier answers General Support at 0.5 with method rules and
\* that single entry as top_predictions, with no model backend present.
C24_NoKeywordGivesDefault ==
  (last.op = "classify_with_rules" /\ ~SomeKeywordOccurs(last.text))
  => /\ last.result.category = "General Support"
     /\ last.result.confidence = R(1, 2)
     /\ last.result.method = "rules"
     /\ last.result.top_predictions =
          <<[category |-> "General Support", confidence |-> R(1, 2)]>>
     /\ bert_classifier = "none" /\ traditional_model = NoModel

\* "Hello" has no keyword and was classified
C24_Witness ==
  /\ last.op = "classify_with_rules"
  /\ last.text = ". Hello"
  /\ ~SomeKeywordOccurs(last.text)
  /\ last.result.top_predictions =
       <<[category |-> "General Support", confidence |-> R(1, 2)]>>

\* the keyword score of a category
ScoreOf(scores, category) ==
  scores[CHOOSE i \in DOMAIN scores : scores[i].category = category].score.n

NonZeroCategories(scores) == {scores[i].category : i \in {k \in DOMAIN scores : scores[k].score.n > 0}}

\* C25: when a keyword matches, the rules confidence is the winning score
\* over the sum of all scores, and top_predictions are at most 3 categories
\* of non-zero score, best first, each over the same sum.
C25_RulesConfidenceAndTop ==
  (last.op = "classify_with_rules" /\ SomeKeywordOccurs(last.text))
  => LET scores == RulesScores(last.text)
         total == Total(scores)
         top == last.result.top_predictions
         nonzero == NonZeroCategories(scores)
     IN /\ total > 0
        /\ \A c \in nonzero : ScoreOf(scores, c) <= ScoreOf(scores, last.result.category)
        /\ last.result.confidence = R(ScoreOf(scores, last.result.category), total)
        /\ Len(top) = (IF Cardinality(nonzero) < 3 THEN Cardinality(nonzero) ELSE 3)
        /\ \A i \in DOMAIN top :
             /\ top[i].category \in nonzero
             /\ top[i].confidence = R(ScoreOf(scores, top[i].category), total)
             /\ \A j \in DOMAIN top : i < j =>
                  /\ top[i].category # top[j].category
                  /\ RLe(top[j].confidence, top[i].confidence)
             /\ \A c \in nonzero \ {top[k].category : k \in DOMAIN top} :
                  ScoreOf(scores, c) <= ScoreOf(scores, top[i].category)

\* five categories scored, three of them are listed
C25_Witness ==
  /\ last.op = "classify_with_rules"
  /\ Cardinality(NonZeroCategories(RulesScores(last.text))) = 5
  /\ Len(last.result.top_predictions) = 3
  /\ last.result.confidence = R(1, 5)

\* the position of a priority bucket in the order urgent, high, medium, low
BucketIndex(priority) ==
  CHOOSE i \in DOMAIN priority_keywords : priority_keywords[i].key = priority

\* the positions holding the largest of the four raw scores
TiedBuckets(raw) == {i \in DOMAIN raw : \A j \in DOMAIN raw : raw[j] <= raw[i]}

\* C21: the priority scorer answers medium at 0.6 when the four bucket
\* scores are all 0, and otherwise a bucket holding the largest raw score,
\* with confidence min(winning_score / total_score * 1.5, 1.0).
C21_PriorityDecision ==
  (last.op = "classify_priority" /\ ~last.result.raised)
  => LET raw == RawScores(last.result)
         total == raw[1] + raw[2] + raw[3] + raw[4]
     IN IF raw = <<0, 0, 0, 0>>
          THEN last.result.priority = "medium" /\ last.result.confidence = R(6, 10)
          ELSE /\ BucketIndex(last.result.priority) \in TiedBuckets(raw)
               /\ last.result.confidence =
                    RMin(RMul(R(raw[BucketIndex(last.result.priority)], total), R(15, 10)), One)

\* a winner below the cap: medium with 2 of 4 points, confidence 0.75
C21_Witness ==
  /\ last.op = "classify_priority"
  /\ ~last.result.raised
  /\ RawScores(last.result) = <<0, 0, 2, 2>>
  /\ last.result.priority = "medium"
  /\ last.result.confidence = R(3, 4)

\* C30: when several buckets tie for the largest non-zero raw score, the
\* priority scorer answers the most urgent of them, in the order urgent,
\* high, medium, low.
C30_TieGoesToMostUrgent ==
  (/\ last.op = "classify_priority"
   /\ ~last.result.raised
   /\ RawScores(last.result) # <<0, 0, 0, 0>>
   /\ Cardinality(TiedBuckets(RawScores(last.result))) >= 2)
  => \A i \in TiedBuckets(RawScores(last.result)) :
       BucketIndex(last.result.priority) <= i

\* urgent and high tied at 3 from the metadata alone, urgent answered
C30_Witness ==
  /\ last.op = "classify_priority"
  /\ ~last.result.raised
  /\ RawScores(last.result) = <<3, 3, 0, 0>>
  /\ last.result.priority = "urgent"

\* C2: with the transformer pipeline, VADER and TextBlob all unavailable,
\* analyze with the ensemble method on a non-empty text answers neutral with
\* score 0 and confidence 0.
C2_NeutralZeroWithoutBackends ==
  (/\ last.op = "analyze"
   /\ last.method = "ensemble"
   /\ ~(last.text = "" \/ IsBlank(last.text))
   /\ sentiment_pipeline = "none" /\ vader = "none" /\ ~textblob_enabled)
  => /\ last.result.sentiment = "neutral"
     /\ last.result.score = Zero
     /\ last.result.confidence = Zero

\* C3: each component scorer whose backend is unavailable, or whose backend
\* call raised, answers label neutral with score 0.
C3_ComponentsDegradeToNeutralZero ==
  /\ (last.op = "analyze_with_transformer" /\ (sentiment_pipeline = "none" \/ last.p.raised))
     => (last.result.label = "neutral" /\ last.result.score = Zero)
  /\ (last.op = "analyze_with_vader" /\ (vader = "none" \/ last.v.raised))
     => (last.result.label = "neutral" /\ last.result.score = Zero)
  /\ (last.op = "analyze_with_textblob" /\ (~textblob_enabled \/ last.tb.raised))
     => (last.result.label = "neutral" /\ last.result.score = Zero)

\* C9: the confidence of the rules classifier, of the priority scorer and of
\* analyze, whatever the method, lies in [0, 1].
C9_ConfidenceInUnitInterval ==
  /\ last.op = "classify_with_rules" => InUnit(last.result.confidence)
  /\ (last.op = "classify_priority" /\ ~last.result.raised)
     => InUnit(last.result.confidence)
  /\ last.op = "analyze" => InUnit(last.result.confidence)

\* the priority scorer answered at the cap: urgent holds 6 of the 7 points
C9_Witness ==
  /\ last.op = "classify_priority"
  /\ ~last.result.raised
  /\ last.result.priority = "urgent"
  /\ last.result.confidence = One
  /\ Total(last.result.scores) = 7

\* C11: analyze, in both implementations, on an empty or whitespace-only text
\* answers exactly neutral, score 0, confidence 0 with the method it was
\* given, whatever that method, and runs none of the three scorers.
C11_BlankTextShortCircuits ==
  (last.op \in {"analyze", "model_analyze"} /\ (last.text = "" \/ IsBlank(last.text)))
  => /\ last.result = [sentiment |-> "neutral", score |-> Zero, confidence |-> Zero,
                       method |-> last.method]
     /\ last.invoked = {}

\* a whitespace-only text given to analyze with a loaded VADER
C11_Witness ==
  /\ last.op = "analyze"
  /\ last.text = " \t"
  /\ last.method = "vader"
  /\ vader = "loaded"
  /\ last.result.score = Zero

\* the ensemble ran: ensemble_analysis itself, or analyze with a method that
\* is none of the three scorers on a text that is not blank
EnsembleRan ==
  \/ last.op \in {"ensemble_analysis", "model_ensemble_analysis"} /\ last.text # ""
  \/ /\ last.op \in {"analyze", "model_analyze"}
     /\ last.method \notin {"transformer", "vader", "textblob"}
     /\ ~(last.text = "" \/ IsBlank(last.text))

\* the scores the three scorers return for the text of the last call
ScorerScores ==
  IF last.op \in {"ensemble_analysis", "analyze"}
    THEN <<analyze_with_transformer(sentiment_pipeline, last.text, last.p).score,
           analyze_with_vader(vader, last.text, last.v).score,
           analyze_with_textblob(textblob_enabled, last.text, last.tb).score>>
    ELSE <<model_analyze_with_transformer(transformer_model, last.text, last.p).score,
           model_analyze_with_vader(vader_analyzer, last.text, last.v).score,
           model_analyze_with_textblob(last.text, last.tb).score>>

\* C12: the ensemble score is 0.5*t + 0.3*a + 0.2*b, with t, a and b the
\* scores of the transformer, VADER and TextBlob scorers for the text.
C12_EnsembleScoreIsWeightedSum ==
  EnsembleRan
  => last.result.score =
       RAdd(RAdd(RMul(R(5, 10), ScorerScores[1]), RMul(R(3, 10), ScorerScores[2])),
            RMul(R(2, 10), ScorerScores[3]))

\* the three scorers answered with three different non-zero scores
C12_Witness ==
  /\ last.op = "ensemble_analysis"
  /\ last.text # ""
  /\ ~last.p.raised /\ ~last.v.raised /\ ~last.tb.raised
  /\ ScorerScores = <<One, R(-1, 2), R(1, 20)>>
  /\ last.result.score = R(36, 100)

\* C13: the ensemble label is positive exactly when the score is > 0.1,
\* negative exactly when it is < -0.1, neutral otherwise (0.1 and -0.1 are
\* neutral), and the confidence is the absolute value of the score.
C13_EnsembleLabelAndConfidence ==
  EnsembleRan
  => /\ (last.result.sentiment = "positive") <=> RLt(R(1, 10), last.result.score)
     /\ (last.result.sentiment = "negative") <=> RLt(last.result.score, R(-1, 10))
     /\ last.result.sentiment \in {"positive", "negative", "neutral"}
     /\ last.result.confidence = RAbs(last.result.score)

\* an ensemble score of exactly 0.1 (TextBlob alone at 0.5) is neutral
C13_Witness ==
  /\ last.op = "analyze"
  /\ EnsembleRan
  /\ last.result.score = R(1, 10)
  /\ last.result.sentiment = "neutral"
  /\ last.result.confidence = R(1, 10)

-----------------------------------------------------------------------------
(* Properties of retraining under load (SpecThreads).                        *)

\* C4: a classification that runs while train_traditional_model runs never
\* uses a vectorizer and a model of different training runs.
C4_PairFromOneRun ==
  (call.pc = "predicted" /\ trainer.pc # "idle") => call.vec.run = call.model.run
=============================================================================
